---- MODULE Spec2Model ----
(***************************************************************************)
(* Model of the gamedata resolver (GameData::Config) of s2u-gamedata:      *)
(* the observable keyed stores (Storage<K,V>), the case-insensitive symbol *)
(* table, and the section loaders driven by Config::Load over a KeyValues3 *)
(* document.  Source: src/src/gamedata.cpp (first translation unit, lines  *)
(* 22-600) and src/include/gamedata.hpp (last revision, lines 907-1435).   *)
(***************************************************************************)
EXTENDS Integers, Sequences, FiniteSets, TLC

VARIABLES
    document,        \* the KeyValues3 document object the host holds (Load mutates it)
    m_aSymbolTable,  \* Config::m_aSymbolTable: interned strings, slot i is symbol i
    m_mapValues,     \* Storage::m_mapValues of the three stores, by store name
    m_vecListeners,  \* Storage::m_vecListeners of the three stores, by store name
    op,              \* the operation that produced this state, with its arguments
    ret,             \* what that operation returned
    vecMessages,     \* the diagnostics that operation appended to the host's vector
    trace,           \* what happened inside that operation, in order
    nLoads,          \* number of Load calls so far
    crashed,         \* the process died in an undefined read or a failed Assert
    lastSet,         \* per store: the value of the latest Set of each key since the
                     \* store was last cleared (history, read by no operation)
    loaded,          \* the document as the latest Load received it, null after a
                     \* Parse (history, read by no operation)
    m_mapCallbacks,  \* BaseListenerCollector::m_mapCallbacks of one collector of
                     \* each kind, by kind
    pc               \* the frames of a Load that is followed statement by
                     \* statement, innermost last; empty when none is running

vars == <<document, m_aSymbolTable, m_mapValues, m_vecListeners,
          op, ret, vecMessages, trace, nLoads, crashed, lastSet, loaded,
          m_mapCallbacks, pc>>

(***************************************************************************)
(* Bounds of the model.                                                    *)
(***************************************************************************)
MaxLoads == 2
MaxListeners == 2
MaxCallbacks == 2
PtrBits == 6

\* uintptr_t arithmetic is modular; the pointer width is scaled down to PtrBits.
PtrMod == 2 ^ PtrBits

Wrap(n) == n % PtrMod

\* sizeof(int32_t) in the read_offs32 fix-up
SizeofInt32 == 4

(***************************************************************************)
(* KeyValues3 values: a number, a string, a table of named members in      *)
(* document order, or null.                                                *)
(***************************************************************************)
KVNull == [t |-> "null", n |-> 0, s |-> "", m |-> <<>>]

KVNum(n) == [t |-> "num", n |-> n, s |-> "", m |-> <<>>]

KVStr(s) == [t |-> "str", n |-> 0, s |-> s, m |-> <<>>]

KVTab(m) == [t |-> "tab", n |-> 0, s |-> "", m |-> m]

Mem(k, v) == [k |-> k, v |-> v]

GetMemberCount(kv) == Len(kv.m)

\* index (1-based) of the member called name, 0 when there is none
FindMemberId(kv, name) ==
    IF \E i \in 1..Len(kv.m) : kv.m[i].k = name
    THEN CHOOSE i \in 1..Len(kv.m) :
            /\ kv.m[i].k = name
            /\ \A j \in 1..(i - 1) : kv.m[j].k # name
    ELSE 0

HasMember(kv, name) == FindMemberId(kv, name) # 0

FindMember(kv, name) == kv.m[FindMemberId(kv, name)].v

RemoveAt(seq, i) == SubSeq(seq, 1, i - 1) \o SubSeq(seq, i + 1, Len(seq))

\* KeyValues3::RemoveMember: the later members move up, their order kept
RemoveMember(kv, name) ==
    IF HasMember(kv, name)
    THEN [kv EXCEPT !.m = RemoveAt(@, FindMemberId(kv, name))]
    ELSE kv

SetMember(kv, i, v) == [kv EXCEPT !.m[i].v = v]

IsString(kv) == kv.t = "str"

GetString(kv, default) == IF kv.t = "str" THEN kv.s ELSE default

GetUInt64(kv) == IF kv.t = "num" THEN kv.n ELSE 0

(***************************************************************************)
(* Diagnostics: a message is the sequence of the string parts the code     *)
(* concatenates.                                                           *)
(***************************************************************************)
Tab(msg) == <<"\t">> \o msg

RECURSIVE TabAll(_)
TabAll(msgs) == IF msgs = <<>> THEN <<>> ELSE <<Tab(Head(msgs))>> \o TabAll(Tail(msgs))

(***************************************************************************)
(* Platform and engine selector.  The model is the Windows x64 build of    *)
(* the CS2 engine variant.                                                 *)
(***************************************************************************)
PLAT_FIRST == 0
PLAT_WINDOWS64 == 1
PLAT_LINUX64 == 3
PLAT_MAX == 6

\* s_aPlatformMemberNames, indexed by Platform_t + 1
s_aPlatformMemberNames ==
    <<"windows", "win64", "linux", "linuxsteamrt64", "mac", "osx64">>

GetPlatformMemberName(eElm) == s_aPlatformMemberNames[eElm + 1]

GetCurrentPlatformLinux == PLAT_LINUX64

GetCurrentPlatform == PLAT_WINDOWS64

GetCurrentPlatformMemberName == GetPlatformMemberName(GetCurrentPlatform)

GetSourceEngineMemberName == "csgo"

s_aLibraryMemberName == "library"

s_aSignatureMemberName == "signature"

(***************************************************************************)
(* The host collaborators: IGameData::FindLibrary, CModule::FindPattern,   *)
(* CModule::GetVirtualTableByName and the process memory the `read`        *)
(* actions dereference.  An address of 0 is the invalid CMemory.           *)
(***************************************************************************)
Libraries == {"server", "engine"}

FindLibrary(name) == IF name \in Libraries THEN name ELSE "<null>"

FindPattern(lib, pattern) ==
    CASE lib = "server" /\ pattern = "AA BB ? DD" -> 16
      [] lib = "server" /\ pattern = "CC ? EE" -> 24
      [] lib = "engine" /\ pattern = "AA BB ? DD" -> 40
      [] OTHER -> 0

GetVirtualTableByName(lib, name) ==
    CASE lib = "server" /\ name = "CFoo" -> 32
      [] lib = "server" /\ name = "Baz" -> 36
      [] OTHER -> 0

\* the bytes of the loaded modules are mapped at these addresses
Mapped == 16 .. 47

\* pointer-width cells and 32-bit displacement cells of that memory
PtrCells == (20 :> 44) @@ (24 :> 0) @@ (44 :> 20)

Int32Cells == (20 :> 4) @@ (24 :> -8) @@ (18 :> -22)

ReadPtrAt(a) == IF a \in DOMAIN PtrCells THEN PtrCells[a] ELSE 17

ReadInt32At(a) == IF a \in DOMAIN Int32Cells THEN Int32Cells[a] ELSE 1

\* what the undefined reads of one run do.  A read outside the mapped memory
\* kills the process (crash) or hands back whatever is there (val); a read
\* through a reference to a destroyed temporary hands back what the temporary
\* held (val = 0) or whatever is there now (val)
UBOutcomes ==
    { [crash |-> TRUE, val |-> 0, probe |-> FALSE],
      [crash |-> FALSE, val |-> 0, probe |-> FALSE],
      [crash |-> FALSE, val |-> 21, probe |-> FALSE] }

\* the run that only finds out whether an undefined read happens
UBProbe == [crash |-> TRUE, val |-> 0, probe |-> TRUE]

(***************************************************************************)
(* Symbol interner (CUtlSymbolTableLarge_CI): slot i holds the spelling    *)
(* that was interned first; a symbol is its slot number, 0 is invalid.     *)
(***************************************************************************)
LowerCase ==
    ("Foo" :> "foo") @@ ("FOO" :> "foo") @@ ("Bar" :> "bar") @@ ("BAR" :> "bar")
    @@ ("Baz" :> "baz") @@ ("Qux" :> "qux")

ToLower(text) == IF text \in DOMAIN LowerCase THEN LowerCase[text] ELSE text

CaseSensitiveEqual(a, b) == a = b

\* the table's comparison of two spellings
SymbolEqual(a, b) == ToLower(a) = ToLower(b)

SymbolTableFind(table, text) ==
    IF \E i \in 1..Len(table) : SymbolEqual(table[i], text)
    THEN CHOOSE i \in 1..Len(table) : SymbolEqual(table[i], text)
                                      /\ \A j \in 1..(i - 1) : ~SymbolEqual(table[j], text)
    ELSE 0

AddString(table, text) ==
    IF SymbolTableFind(table, text) # 0 THEN table ELSE Append(table, text)

(***************************************************************************)
(* Storage<K,V>: m_mapValues is the CUtlMap's nodes in key order.          *)
(***************************************************************************)
Stores == {"Addresses", "Keys", "Offsets"}

\* the value-initialised V that Get hands back on a miss
DefaultValue(s) == IF s = "Keys" THEN KVNull ELSE 0

\* CUtlMap::Find: index of a node with that key, 0 is InvalidIndex
MapFind(map, aKey) ==
    IF \E i \in 1..Len(map) : map[i].k = aKey
    THEN CHOOSE i \in 1..Len(map) :
            /\ map[i].k = aKey
            /\ \A j \in 1..(i - 1) : map[j].k # aKey
    ELSE 0

\* CUtlMap::Insert: a new node, placed after the nodes whose key is not larger
MapInsert(map, aKey, aValue) ==
    LET before == Cardinality({i \in 1..Len(map) : map[i].k <= aKey})
    IN SubSeq(map, 1, before) \o <<Mem(aKey, aValue)>>
           \o SubSeq(map, before + 1, Len(map))

StorageGet(map, aKey, aDefaultValue) ==
    IF MapFind(map, aKey) # 0 THEN map[MapFind(map, aKey)].v ELSE aDefaultValue

StorageSetAlwaysInsert(map, aKey, aValue) == MapInsert(map, aKey, aValue)

\* Storage::Set, the part that writes m_mapValues
StorageSetValues(map, aKey, aValue) ==
    IF MapFind(map, aKey) # 0
    THEN [map EXCEPT ![MapFind(map, aKey)].v = aValue]
    ELSE MapInsert(map, aKey, aValue)

(***************************************************************************)
(* What happens inside an operation is recorded as a sequence of events:   *)
(*   call       a = section whose loader was invoked                       *)
(*   return     a = section whose loader returned, v = 1 for true, 0 false *)
(*   Set        a = store, k = symbol, v = value written, x = 1 when the   *)
(*              key had a node that was overwritten, 0 when one was added  *)
(*   OnChanged  a = store, k, v as passed to listener p[1];                *)
(*              x = what Get(k) gives the listener at that moment          *)
(*   GetAddress k = symbol looked up by the address resolver, v = result,  *)
(*              x = the cursor the resolver goes on with                   *)
(*   apply      a = action name, v = its value, p = platform keys above    *)
(*              it, x = the cursor after it                                *)
(*   entry      a = name of the Addresses entry handed to the resolver,    *)
(*              v = number of messages vecSubMessages holds at that moment *)
(*   failed     a = name of the Addresses entry the resolver failed for,   *)
(*              p = the messages listed under its header                   *)
(*   visit      a = section whose loader begins the loop body for its      *)
(*              member k (Load followed statement by statement)            *)
(*   enter      the address resolver was called, x = number of resolver    *)
(*              calls it is nested in                                      *)
(***************************************************************************)
Ev(e, a, k, v, p, x) == [e |-> e, a |-> a, k |-> k, v |-> v, p |-> p, x |-> x]

\* the Config object while an operation runs
Ctx(sym, val, lst, tr) == [sym |-> sym, val |-> val, lst |-> lst, trace |-> tr]

Log(c, ev) == [c EXCEPT !.trace = Append(@, ev)]

RECURSIVE NotifyFrom(_, _, _, _, _)
\* Storage::OnChanged: every listener of the list, in list order
NotifyFrom(c, s, aKey, aValue, i) ==
    IF i > Len(c.lst[s]) THEN c
    ELSE NotifyFrom(
            Log(c, Ev("OnChanged", s, aKey, aValue, <<c.lst[s][i]>>,
                      StorageGet(c.val[s], aKey, DefaultValue(s)))),
            s, aKey, aValue, i + 1)

StorageOnChanged(c, s, aKey, aValue) == NotifyFrom(c, s, aKey, aValue, 1)

\* Storage::Set on store s of the Config
StorageSet(c, s, aKey, aValue) ==
    StorageOnChanged(
        Log([c EXCEPT !.val[s] = StorageSetValues(@, aKey, aValue)],
            Ev("Set", s, aKey, aValue, <<>>,
               IF MapFind(c.val[s], aKey) # 0 THEN 1 ELSE 0)),
        s, aKey, aValue)

\* Config::GetSymbol: the interned table after the call, and the symbol
GetSymbolTable(c, text) == [c EXCEPT !.sym = AddString(@, text)]

GetSymbol(c, text) == SymbolTableFind(AddString(c.sym, text), text)

FindSymbol(table, text) == SymbolTableFind(table, text)

\* what is read through the reference Config::GetAddress, GetKey or GetOffset
\* returns on a miss: it refers to the temporary `aDefaultValue = {}` of
\* Storage::Get, destroyed when the return statement of the getter completes
Dangling(s, ub) ==
    IF ub.val = 0 THEN DefaultValue(s)
    ELSE IF s = "Keys" THEN KVStr("<garbage>")
    ELSE ub.val

\* Config::GetAddress, GetKey, GetOffset on the stores values, as read by the caller
ConfigGet(values, s, sName, ub) ==
    IF MapFind(values[s], sName) # 0
    THEN StorageGet(values[s], sName, DefaultValue(s))
    ELSE Dangling(s, ub)

GetAddress(c, sName, ub) == ConfigGet(c.val, "Addresses", sName, ub)

\* SetAddress(GetSymbol(name), value), SetKey(...), SetOffset(...)
SetByName(c, s, name, aValue) ==
    StorageSet(GetSymbolTable(c, name), s, GetSymbol(c, name), aValue)

(***************************************************************************)
(* The section loaders.  Each takes the Config (c), its section of the     *)
(* document (kv) and the message vector it appends to (msgs), and yields   *)
(* its verdict with the three as it leaves them.                           *)
(***************************************************************************)
Res(ok, c, kv, msgs) == [ok |-> ok, c |-> c, kv |-> kv, msgs |-> msgs, fault |-> FALSE]

RECURSIVE SignaturesFrom(_, _, _, _)
\* the do-while of LoadEngineSignatures, from member i (1-based) on
SignaturesFrom(c, kv, msgs, i) ==
    LET pSigSection == kv.m[i].v
        pszSigName == kv.m[i].k
        pszLibraryName == GetString(FindMember(pSigSection, s_aLibraryMemberName), "<none>")
        pLibModule == FindLibrary(pszLibraryName)
        pszSignature == GetString(FindMember(pSigSection, GetCurrentPlatformMemberName), "")
        pSigResult == FindPattern(pLibModule, pszSignature)
        failure ==
            IF ~HasMember(pSigSection, s_aLibraryMemberName)
            THEN <<"Failed to get \"", s_aLibraryMemberName, "\" key into \"", pszSigName, "\"">>
            ELSE IF pLibModule = "<null>"
            THEN <<"Not found \"", pszLibraryName, "\" library into \"", pszSigName, "\"">>
            ELSE IF ~HasMember(pSigSection, GetCurrentPlatformMemberName)
            THEN <<"Failed to get \"", GetCurrentPlatformMemberName, "\" key into \"",
                   pszSigName, "\"">>
            ELSE IF pSigResult = 0
            THEN <<"Failed to find \"", pszSigName, "\" by\"", pszSignature, "\" signature">>
            ELSE <<>>
        c2 == IF failure # <<>> THEN c ELSE SetByName(c, "Addresses", pszSigName, pSigResult)
        msgs2 == IF failure # <<>> THEN Append(msgs, failure) ELSE msgs
    IN IF i + 1 <= GetMemberCount(kv)
       THEN SignaturesFrom(c2, kv, msgs2, i + 1)
       ELSE Res(TRUE, c2, kv, msgs2)

LoadEngineSignaturesFirstOnly(c, kv, msgs) ==
    IF GetMemberCount(kv) = 0
    THEN Res(FALSE, c, kv, Append(msgs, <<"Section is empty">>))
    ELSE [SignaturesFrom(c, KVTab(<<kv.m[1]>>), msgs, 1) EXCEPT !.kv = kv]

LoadEngineSignatures(c, kv, msgs) ==
    IF GetMemberCount(kv) = 0
    THEN Res(FALSE, c, kv, Append(msgs, <<"Section is empty">>))
    ELSE SignaturesFrom(c, kv, msgs, 1)

RECURSIVE VTablesFrom(_, _, _, _)
VTablesFrom(c, kv, msgs, i) ==
    LET pData == kv.m[i].v
        pszVTableKey == kv.m[i].k
        pszLibraryName == GetString(FindMember(pData, s_aLibraryMemberName), "<none>")
        pLibModule == FindLibrary(pszLibraryName)
        pszName == IF HasMember(pData, "name") /\ IsString(FindMember(pData, "name"))
                   THEN GetString(FindMember(pData, "name"), "")
                   ELSE pszVTableKey
        pResult == GetVirtualTableByName(pLibModule, pszName)
        failure ==
            IF ~HasMember(pData, s_aLibraryMemberName)
            THEN <<"Failed to get \"", s_aLibraryMemberName, "\" key into \"", pszVTableKey, "\"">>
            ELSE IF pLibModule = "<null>"
            THEN <<"Not found \"", pszLibraryName, "\" library into \"", pszVTableKey, "\"">>
            ELSE IF pResult = 0
            THEN <<"Failed to find \"", pszVTableKey, "\" by \"", pszName, "\" vtable">>
            ELSE <<>>
        c2 == IF failure # <<>> THEN c ELSE SetByName(c, "Addresses", pszVTableKey, pResult)
        msgs2 == IF failure # <<>> THEN Append(msgs, failure) ELSE msgs
    IN IF i + 1 <= GetMemberCount(kv)
       THEN VTablesFrom(c2, kv, msgs2, i + 1)
       ELSE Res(TRUE, c2, kv, msgs2)

LoadEngineVTables(c, kv, msgs) ==
    IF GetMemberCount(kv) = 0
    THEN Res(FALSE, c, kv, Append(msgs, <<"Section is empty">>))
    ELSE VTablesFrom(c, kv, msgs, 1)

RECURSIVE KeysFrom(_, _, _, _)
KeysFrom(c, kv, msgs, i) ==
    LET pKeySection == kv.m[i].v
        pszKeyName == kv.m[i].k
        found == HasMember(pKeySection, GetCurrentPlatformMemberName)
        c2 == IF found
              THEN SetByName(c, "Keys", pszKeyName,
                             FindMember(pKeySection, GetCurrentPlatformMemberName))
              ELSE c
        msgs2 == IF found THEN msgs
                 ELSE Append(msgs, <<"Failed to get \"", GetCurrentPlatformMemberName,
                                     "\" key into \"", pszKeyName, "\"">>)
    IN IF i + 1 <= GetMemberCount(kv)
       THEN KeysFrom(c2, kv, msgs2, i + 1)
       ELSE Res(TRUE, c2, kv, msgs2)

LoadEngineKeys(c, kv, msgs) ==
    IF GetMemberCount(kv) = 0
    THEN Res(FALSE, c, kv, Append(msgs, <<"Keys section is empty">>))
    ELSE KeysFrom(c, kv, msgs, 1)

\* strtol: value of a character as a digit, 36 for a character that is no digit
DigitValue(ch) ==
    LET HexDigits ==
    [d \in {"0", "1", "2", "3", "4", "5", "6", "7", "8", "9"} |->
        CHOOSE n \in 0..9 : <<"0", "1", "2", "3", "4", "5", "6", "7", "8", "9">>[n + 1] = d]
    @@ ("a" :> 10) @@ ("b" :> 11) @@ ("c" :> 12) @@ ("d" :> 13) @@ ("e" :> 14) @@ ("f" :> 15)
    @@ ("A" :> 10) @@ ("B" :> 11) @@ ("C" :> 12) @@ ("D" :> 13) @@ ("E" :> 14) @@ ("F" :> 15)
    IN IF ch \in DOMAIN HexDigits THEN HexDigits[ch] ELSE 36

\* the characters of the texts an Offsets entry may hold
Chars ==
    ("0x10" :> <<"0", "x", "1", "0">>) @@ ("16" :> <<"1", "6">>)
    @@ ("010" :> <<"0", "1", "0">>) @@ ("-4" :> <<"-", "4">>)
    @@ ("-0X1f" :> <<"-", "0", "X", "1", "f">>) @@ (" +12" :> <<" ", "+", "1", "2">>)
    @@ ("12abc" :> <<"1", "2", "a", "b", "c">>) @@ ("0x" :> <<"0", "x">>)
    @@ ("08" :> <<"0", "8">>) @@ ("" :> <<>>)

\* the digits of the base from position i on, accumulated on acc
RECURSIVE Digits(_, _, _, _)
Digits(chars, i, base, acc) ==
    IF i <= Len(chars) /\ DigitValue(chars[i]) < base
    THEN Digits(chars, i + 1, base, acc * base + DigitValue(chars[i]))
    ELSE acc

RECURSIVE SkipSpaces(_, _)
SkipSpaces(chars, i) ==
    IF i <= Len(chars) /\ chars[i] = " " THEN SkipSpaces(chars, i + 1) ELSE i

StrtolBase10(chars, i) == Digits(chars, i, 10, 0)

\* strtol(text, NULL, 0) from position i, after white space and sign: a 0x or
\* 0X prefix before a hexadecimal digit selects base 16, another leading 0
\* base 8, anything else base 10
Strtol(chars, i) ==
    IF /\ i + 2 <= Len(chars)
       /\ chars[i] = "0"
       /\ chars[i + 1] \in {"x", "X"}
       /\ DigitValue(chars[i + 2]) < 16
    THEN Digits(chars, i + 2, 16, 0)
    ELSE IF i <= Len(chars) /\ chars[i] = "0"
    THEN Digits(chars, i, 8, 0)
    ELSE Digits(chars, i, 10, 0)

\* white space, then an optional sign, then the number
SignedStrtol(chars, i) ==
    IF i <= Len(chars) /\ chars[i] = "-" THEN 0 - Strtol(chars, i + 1)
    ELSE IF i <= Len(chars) /\ chars[i] = "+" THEN Strtol(chars, i + 1)
    ELSE Strtol(chars, i)

ReadOffset(pszValue) == SignedStrtol(Chars[pszValue], SkipSpaces(Chars[pszValue], 1))

RECURSIVE OffsetsFrom(_, _, _, _)
OffsetsFrom(c, kv, msgs, i) ==
    LET pOffsetSection == kv.m[i].v
        pszOffsetName == kv.m[i].k
        found == HasMember(pOffsetSection, GetCurrentPlatformMemberName)
        pPlatformValues == FindMember(pOffsetSection, GetCurrentPlatformMemberName)
        c2 == IF found
              THEN SetByName(c, "Offsets", pszOffsetName,
                             IF IsString(pPlatformValues)
                             THEN ReadOffset(GetString(pPlatformValues, ""))
                             ELSE GetUInt64(pPlatformValues))
              ELSE c
        msgs2 == IF found THEN msgs
                 ELSE Append(msgs, <<"Failed to get \"", GetCurrentPlatformMemberName,
                                     "\" key into \"", pszOffsetName, "\"">>)
    IN IF i + 1 <= GetMemberCount(kv)
       THEN OffsetsFrom(c2, kv, msgs2, i + 1)
       ELSE Res(TRUE, c2, kv, msgs2)

LoadEngineOffsets(c, kv, msgs) ==
    IF GetMemberCount(kv) = 0
    THEN Res(FALSE, c, kv, Append(msgs, <<"Offsets section is empty">>))
    ELSE OffsetsFrom(c, kv, msgs, 1)

(***************************************************************************)
(* The address-action resolver.  pAddrCur is the caller's cursor; path is  *)
(* the platform keys above kv; ub is what a read outside the mapped memory *)
(* does in this run.                                                       *)
(***************************************************************************)
ActRes(ok, c, kv, msgs, cur, fault) ==
    [ok |-> ok, c |-> c, kv |-> kv, msgs |-> msgs, cur |-> cur, fault |-> fault]

\* !strncmp(pszName, "read", 4) on the member names of the documents
HasReadPrefix(pszName) == pszName \in {"read", "read_offs32", "readx", "read_offs64"}

RECURSIVE RemoveExtraKeys(_, _)
\* the "Remove an extra keys" loop, from platform iPlat on
RemoveExtraKeys(kv, iPlat) ==
    IF iPlat >= PLAT_MAX THEN kv
    ELSE RemoveExtraKeys(
            IF GetCurrentPlatform # iPlat
            THEN RemoveMember(kv, GetPlatformMemberName(iPlat))
            ELSE kv,
            iPlat + 1)

StartCursorUntouched(hasSig, pSigAddress, pAddrCur) == pAddrCur

\* pAddrCur = pSigAddress.GetAddr() when the entry has a `signature` member
StartCursor(hasSig, pSigAddress, pAddrCur) == IF hasSig THEN pSigAddress ELSE pAddrCur

RECURSIVE LoadEngineAddressActions(_, _, _, _, _, _, _)
IsPlatformKeyNever(pszName) == FALSE

\* !strcmp(pszPlatformKey, pszName)
IsPlatformKey(pszName) == pszName = GetCurrentPlatformMemberName

ApplyOffsetTwice(pAddrCur, nActionValue) == Wrap(pAddrCur + 2 * nActionValue)

\* pAddrCur += nActionValue
ApplyOffset(pAddrCur, nActionValue) == Wrap(pAddrCur + nActionValue)

ApplyReadOffs32NoSize(pAddrCur, nActionValue, nDisplacement) ==
    Wrap(pAddrCur + nActionValue + nDisplacement)

\* pAddrCur = pAddrCur + nActionValue + sizeof(int32_t) + the int32 read at
\* pAddrCur + nActionValue
ApplyReadOffs32(pAddrCur, nActionValue, nDisplacement) ==
    Wrap(pAddrCur + nActionValue + SizeofInt32 + nDisplacement)

RECURSIVE ActionsFrom(_, _, _, _, _, _, _, _, _)
\* the do-while over the members that are left, from member i (1-based) on
ActionsFrom(c, pszAddressName, pAddrCur, kv, msgs, path, ub, i, nMemberCount) ==
    LET pszName == kv.m[i].k
        pAction == kv.m[i].v
        nActionValue == GetUInt64(pAction)
        at == Wrap(pAddrCur + nActionValue)
        isRead == pszName \in {"read", "read_offs32"}
        wild == isRead /\ at \notin Mapped
        cur2 ==
            CASE pszName = "offset" -> ApplyOffset(pAddrCur, nActionValue)
              [] pszName = "read" -> IF wild THEN ub.val ELSE ReadPtrAt(at)
              [] pszName = "read_offs32" ->
                    ApplyReadOffs32(pAddrCur, nActionValue,
                                    IF wild THEN ub.val ELSE ReadInt32At(at))
              [] OTHER -> pAddrCur
        msgs2 ==
            CASE pszName \in {"offset", "read", "read_offs32"} -> msgs
              [] HasReadPrefix(pszName) ->
                    Append(msgs, <<"Unknown \"", pszName, "\" read key">>)
              [] OTHER -> Append(msgs, <<"Unknown \"", pszName, "\" key">>)
        c2 == IF pszName \in {"offset", "read", "read_offs32"}
              THEN Log(c, Ev("apply", pszName, pAddrCur, nActionValue, path, cur2))
              ELSE c
    IN IF IsPlatformKey(pszName)
       THEN LET r == LoadEngineAddressActions(c, pszAddressName, pAddrCur, pAction, msgs,
                                              Append(path, pszName), ub)
            IN [r EXCEPT !.kv = SetMember(kv, i, r.kv)]
       ELSE IF wild /\ ub.crash
       THEN ActRes(FALSE, c, kv, msgs, pAddrCur, TRUE)
       ELSE IF i + 1 <= nMemberCount
       THEN ActionsFrom(c2, pszAddressName, cur2, kv, msgs2, path, ub, i + 1, nMemberCount)
       ELSE ActRes(TRUE, c2, kv, msgs2, cur2, FALSE)

LoadEngineAddressActions(c, pszAddressName, pAddrCur, kv, msgs, path, ub) ==
    LET hasSig == HasMember(kv, s_aSignatureMemberName)
        pszSignatureName == GetString(FindMember(kv, s_aSignatureMemberName), "")
        sym == GetSymbol(c, pszSignatureName)
        pSigAddress == GetAddress(c, sym, ub)
        miss == hasSig /\ MapFind(c.val["Addresses"], sym) = 0
        cur1 == StartCursor(hasSig, pSigAddress, pAddrCur)
        c1 == IF hasSig
              THEN Log(GetSymbolTable(c, pszSignatureName),
                       Ev("GetAddress", "Addresses", sym, pSigAddress, path,
                          IF pSigAddress = 0 THEN pAddrCur ELSE cur1))
              ELSE c
        kv1 == IF hasSig THEN RemoveMember(kv, s_aSignatureMemberName) ELSE kv
        kv2 == RemoveExtraKeys(kv1, PLAT_FIRST)
        nMemberCount == GetMemberCount(kv) - (IF hasSig THEN 1 ELSE 0)
                            - (Len(kv1.m) - Len(kv2.m))
    IN IF GetMemberCount(kv) = 0
       THEN ActRes(FALSE, c, kv, Append(msgs, <<"Section is empty">>), pAddrCur, FALSE)
       ELSE IF miss /\ ub.probe
       THEN ActRes(FALSE, c, kv, msgs, pAddrCur, TRUE)
       ELSE IF hasSig /\ pSigAddress = 0
       THEN ActRes(FALSE, c1, kv,
                   Append(msgs, <<"Failed to get \"", s_aSignatureMemberName,
                                  "\" signature into \"", pszAddressName, "\"">>),
                   pAddrCur, FALSE)
       ELSE IF nMemberCount < 1
       THEN ActRes(TRUE, c1, kv2, msgs, cur1, FALSE)
       ELSE ActionsFrom(c1, pszAddressName, cur1, kv2, msgs, path, ub, 1, nMemberCount)

AddressResolvedAlways(r) == TRUE

\* the test `if(!LoadEngineAddressActions(...))` of LoadEngineAddresses
AddressResolved(r) == r.ok

RECURSIVE AddressesFrom(_, _, _, _, _, _)
RECURSIVE AddressesAfter(_, _, _, _, _)
\* the body of LoadEngineAddresses' do-while once the resolver has returned r
\* for member i
AddressesAfter(r, kv, msgs, ub, i) ==
    LET pszAddressName == kv.m[i].k
        kv2 == SetMember(kv, i, r.kv)
        msgs2 == IF AddressResolved(r) THEN msgs
                 ELSE Append(msgs, <<"Failed to load \"", pszAddressName,
                                     "\" address action:">>) \o TabAll(r.msgs)
        c2 == IF AddressResolved(r) THEN SetByName(r.c, "Addresses", pszAddressName, r.cur)
              ELSE Log(r.c, Ev("failed", pszAddressName, 0, 0, r.msgs, 0))
    IN IF r.fault
       THEN [Res(FALSE, r.c, kv2, msgs) EXCEPT !.fault = TRUE]
       ELSE IF i + 1 <= GetMemberCount(kv)
       THEN AddressesFrom(c2, kv2, msgs2, r.msgs, ub, i + 1)
       ELSE Res(TRUE, c2, kv2, msgs2)

\* the do-while of LoadEngineAddresses; vecSubMessages is its local vector
AddressesFrom(c, kv, msgs, vecSubMessages, ub, i) ==
    AddressesAfter(LoadEngineAddressActions(Log(c, Ev("entry", kv.m[i].k, 0, Len(vecSubMessages), <<>>, 0)),
                                            kv.m[i].k, 0, kv.m[i].v, vecSubMessages,
                                            <<>>, ub),
                   kv, msgs, ub, i)

LoadEngineAddresses(c, kv, msgs, ub) ==
    IF GetMemberCount(kv) = 0
    THEN Res(FALSE, c, kv, Append(msgs, <<"Addresses section is empty">>))
    ELSE AddressesFrom(c, kv, msgs, <<>>, ub, 1)

(***************************************************************************)
(* Config::LoadEngine and Config::Load.                                    *)
(***************************************************************************)
aSectionsAddressesFirst == <<"Addresses", "Signatures", "VTables", "Keys", "Offsets">>

\* aSections, in declaration order
aSections == <<"Signatures", "VTables", "Keys", "Offsets", "Addresses">>

\* (this->*(aSections[n].pfnLoadOne))(pRoot, pEngineMember, vecSubMessages)
LoadOne(section, c, kv, msgs, ub) ==
    LET c1 == Log(c, Ev("call", section, 0, 0, <<>>, 0))
    IN CASE section = "Signatures" -> LoadEngineSignatures(c1, kv, msgs)
         [] section = "VTables" -> LoadEngineVTables(c1, kv, msgs)
         [] section = "Keys" -> LoadEngineKeys(c1, kv, msgs)
         [] section = "Offsets" -> LoadEngineOffsets(c1, kv, msgs)
         [] section = "Addresses" -> LoadEngineAddresses(c1, kv, msgs, ub)

RECURSIVE LoadEngineFrom(_, _, _, _, _, _, _)
RECURSIVE LoadEngineAfter(_, _, _, _, _, _)
\* the body of LoadEngine's for loop once the loader of section n has returned r
LoadEngineAfter(r, pEngineValues, msgs, ub, n, nSize) ==
    LET kv2 == SetMember(pEngineValues, FindMemberId(pEngineValues, aSections[n]), r.kv)
        msgs2 == IF r.ok THEN msgs
                 ELSE Append(msgs, <<"Failed to load \"", aSections[n], "\" section:">>)
                          \o TabAll(r.msgs)
        c2 == Log(r.c, Ev("return", aSections[n], 0, IF r.ok THEN 1 ELSE 0, <<>>, 0))
    IN IF r.fault
       THEN [Res(FALSE, r.c, kv2, msgs) EXCEPT !.fault = TRUE]
       ELSE LoadEngineFrom(c2, kv2, msgs2, r.msgs, ub, n + 1, nSize)

LoadEngineFromLoadsAbsent(c, pEngineValues, msgs, vecSubMessages, ub, n, nSize) ==
    IF n > nSize THEN Res(TRUE, c, pEngineValues, msgs)
    ELSE IF ~HasMember(pEngineValues, aSections[n])
    THEN LoadEngineAfter(LoadOne(aSections[n], c, KVTab(<<>>), vecSubMessages, ub),
                         KVTab(Append(pEngineValues.m, Mem(aSections[n], KVTab(<<>>)))),
                         msgs, ub, n, nSize)
    ELSE LoadEngineAfter(LoadOne(aSections[n], c, FindMember(pEngineValues, aSections[n]),
                                 vecSubMessages, ub),
                         pEngineValues, msgs, ub, n, nSize)

\* the for loop of LoadEngine from section n (1-based) up to section nSize;
\* vecSubMessages is LoadEngine's local vector
LoadEngineFrom(c, pEngineValues, msgs, vecSubMessages, ub, n, nSize) ==
    IF n > nSize THEN Res(TRUE, c, pEngineValues, msgs)
    ELSE IF ~HasMember(pEngineValues, aSections[n])
    THEN LoadEngineFrom(c, pEngineValues, msgs, vecSubMessages, ub, n + 1, nSize)
    ELSE LoadEngineAfter(LoadOne(aSections[n], c, FindMember(pEngineValues, aSections[n]),
                                 vecSubMessages, ub),
                         pEngineValues, msgs, ub, n, nSize)

LoadEngineSkipsLastSection(c, pEngineValues, msgs, ub) ==
    LoadEngineFrom(c, pEngineValues, msgs, <<>>, ub, 1, Len(aSections) - 1)

LoadEngine(c, pEngineValues, msgs, ub) ==
    LoadEngineFrom(c, pEngineValues, msgs, <<>>, ub, 1, Len(aSections))

ConfigLoadIgnoresEngine(c, pGameConfig, msgs, ub) == LoadEngine(c, pGameConfig, msgs, ub)

\* Config::Load on the document pGameConfig
ConfigLoad(c, pGameConfig, msgs, ub) ==
    IF ~HasMember(pGameConfig, GetSourceEngineMemberName)
    THEN Res(FALSE, c, pGameConfig,
             Append(msgs, <<"Failed to find \"", GetSourceEngineMemberName, "\" section">>))
    ELSE LET r == LoadEngine(c, FindMember(pGameConfig, GetSourceEngineMemberName), msgs, ub)
         IN [r EXCEPT !.kv = SetMember(pGameConfig,
                                       FindMemberId(pGameConfig, GetSourceEngineMemberName),
                                       r.kv)]

(***************************************************************************)
(* The operations of the host on the Config and its stores.                *)
(***************************************************************************)
Op(name, s, k, v, l) == [name |-> name, s |-> s, k |-> k, v |-> v, l |-> l]

NoOp == Op("", "", 0, 0, "")

ThisConfig == Ctx(m_aSymbolTable, m_mapValues, m_vecListeners, <<>>)

RECURSIVE AfterSets(_, _, _)
\* the history lastSet after the Set events of tr from event i on
AfterSets(ls, tr, i) ==
    IF i > Len(tr) THEN ls
    ELSE AfterSets(
            IF tr[i].e = "Set"
            THEN [ls EXCEPT ![tr[i].a] = (tr[i].k :> tr[i].v) @@ @]
            ELSE ls,
            tr, i + 1)

\* the two collector classes: ListenerCallbacksCollector keeps one callback
\* per key, ListenerMultipleCallbacksCollector a vector of callbacks per key
Collectors == {"single", "multi"}

\* the operation left the Config as c, returned r and appended msgs
Done(o, c, r, msgs) ==
    /\ m_aSymbolTable' = c.sym
    /\ lastSet' = AfterSets(lastSet, c.trace, 1)
    /\ m_mapValues' = c.val
    /\ m_vecListeners' = c.lst
    /\ trace' = c.trace
    /\ op' = o
    /\ ret' = r
    /\ vecMessages' = msgs
    /\ m_mapCallbacks' = m_mapCallbacks
    /\ pc' = pc

Init ==
    /\ document = KVNull
    /\ m_aSymbolTable = <<>>
    /\ m_mapValues = [s \in Stores |-> <<>>]
    /\ m_vecListeners \in { [s \in Stores |-> <<>>], [s \in Stores |-> <<"L1">>] }
    /\ op = NoOp
    /\ ret = FALSE
    /\ vecMessages = <<>>
    /\ trace = <<>>
    /\ nLoads = 0
    /\ crashed = FALSE
    /\ lastSet = [s \in Stores |-> <<>>]
    /\ loaded = KVNull
    /\ m_mapCallbacks = [kind \in Collectors |-> <<>>]
    /\ pc = <<>>

\* the host parses a configuration file into a fresh document object
Parse(d) ==
    /\ ~crashed
    /\ nLoads < MaxLoads
    /\ document' = d
    /\ loaded' = KVNull
    /\ Done(Op("Parse", "", 0, 0, ""), ThisConfig, FALSE, <<>>)
    /\ UNCHANGED <<nLoads, crashed>>

LoadFinish(r) ==
    IF r.fault
    THEN /\ crashed' = TRUE
         /\ op' = Op("Load", "", 0, 0, "")
         /\ UNCHANGED <<document, m_aSymbolTable, m_mapValues, m_vecListeners, ret,
                        vecMessages, trace, lastSet, m_mapCallbacks, pc>>
    ELSE /\ crashed' = FALSE
         /\ document' = r.kv
         /\ Done(Op("Load", "", 0, 0, ""), r.c, r.ok, r.msgs)

\* Config::Load(pRoot, document, vecMessages) with an empty message vector
Load ==
    /\ ~crashed
    /\ document # KVNull
    /\ nLoads < MaxLoads
    /\ nLoads' = nLoads + 1
    /\ loaded' = document
    /\ LET r0 == ConfigLoad(ThisConfig, document, <<>>, UBProbe)
       IN IF ~r0.fault
          THEN LoadFinish(r0)
          ELSE \E ub \in UBOutcomes :
                  LoadFinish(ConfigLoad(ThisConfig, document, <<>>, ub))

StorageClearValuesKeepsAll(map) == map

\* Storage::ClearValues
StorageClearValues(map) == <<>>

\* the operation left the Config as c, returned r, and cleared the stores in cl
DoneClearing(o, c, r, cl) ==
    /\ m_aSymbolTable' = c.sym
    /\ lastSet' = [s \in Stores |-> IF s \in cl THEN <<>> ELSE lastSet[s]]
    /\ m_mapValues' = c.val
    /\ m_vecListeners' = c.lst
    /\ trace' = c.trace
    /\ op' = o
    /\ ret' = r
    /\ vecMessages' = <<>>
    /\ m_mapCallbacks' = m_mapCallbacks
    /\ pc' = pc

\* Config::ClearValues
ClearValues ==
    /\ ~crashed
    /\ DoneClearing(Op("ClearValues", "", 0, 0, ""),
                    [ThisConfig EXCEPT !.val = [s \in Stores |-> StorageClearValues(@[s])]],
                    FALSE, Stores)
    /\ UNCHANGED <<document, loaded, nLoads, crashed>>

(***************************************************************************)
(* The operations of the host on one store (Config::GetAddresses() etc.    *)
(* hand out the Storage objects) and on the symbol table.                  *)
(***************************************************************************)
\* Config::GetSymbol(text), called by the host
GetSymbolCall(text) ==
    /\ ~crashed
    /\ Done(Op("GetSymbol", "", 0, text, ""), GetSymbolTable(ThisConfig, text),
            GetSymbol(ThisConfig, text), <<>>)
    /\ UNCHANGED <<document, loaded, nLoads, crashed>>

\* Config::FindSymbol(text) called by the host
FindSymbolCall(text) ==
    /\ ~crashed
    /\ Done(Op("FindSymbol", "", 0, text, ""), ThisConfig,
            FindSymbol(m_aSymbolTable, text), <<>>)
    /\ UNCHANGED <<document, loaded, nLoads, crashed>>

\* Storage::Set(aKey, aValue) on store s
Set(s, aKey, aValue) ==
    /\ ~crashed
    /\ Done(Op("Set", s, aKey, aValue, ""), StorageSet(ThisConfig, s, aKey, aValue),
            FALSE, <<>>)
    /\ UNCHANGED <<document, loaded, nLoads, crashed>>

\* Storage::Get(aKey, aDefaultValue) on store s
Get(s, aKey, aDefaultValue) ==
    /\ ~crashed
    /\ Done(Op("Get", s, aKey, aDefaultValue, ""), ThisConfig,
            StorageGet(m_mapValues[s], aKey, aDefaultValue), <<>>)
    /\ UNCHANGED <<document, loaded, nLoads, crashed>>

\* Storage::ClearValues on store s
ClearStorage(s) ==
    /\ ~crashed
    /\ DoneClearing(Op("Storage::ClearValues", s, 0, 0, ""),
                    [ThisConfig EXCEPT !.val[s] = StorageClearValues(@)], FALSE, {s})
    /\ UNCHANGED <<document, loaded, nLoads, crashed>>

StorageAddListener(vec, pListener) == Append(vec, pListener)

\* Storage::AddListener
AddListener(s, pListener) ==
    /\ ~crashed
    /\ Len(m_vecListeners[s]) < MaxListeners
    /\ Done(Op("AddListener", s, 0, 0, pListener),
            [ThisConfig EXCEPT !.lst[s] = StorageAddListener(@, pListener)], FALSE, <<>>)
    /\ UNCHANGED <<document, loaded, nLoads, crashed>>

\* the FOR_EACH_VEC search of RemoveListener: first index holding pListener, 0 if none
FindListener(vec, pListener) ==
    IF \E i \in 1..Len(vec) : vec[i] = pListener
    THEN CHOOSE i \in 1..Len(vec) :
            /\ vec[i] = pListener
            /\ \A j \in 1..(i - 1) : vec[j] # pListener
    ELSE 0

\* CUtlVector::FastRemove: the last element takes the place of element i
FastRemove(vec, i) ==
    IF i = Len(vec) THEN SubSeq(vec, 1, Len(vec) - 1)
    ELSE [SubSeq(vec, 1, Len(vec) - 1) EXCEPT ![i] = vec[Len(vec)]]

RemoveListenerKeepsAll(vec, pListener) == vec

\* Storage::RemoveListener, the list it leaves
StorageRemoveListener(vec, pListener) ==
    IF FindListener(vec, pListener) # 0
    THEN FastRemove(vec, FindListener(vec, pListener))
    ELSE vec

RemoveListener(s, pListener) ==
    /\ ~crashed
    /\ Done(Op("RemoveListener", s, 0, 0, pListener),
            [ThisConfig EXCEPT !.lst[s] = StorageRemoveListener(@, pListener)],
            FindListener(m_vecListeners[s], pListener) # 0, <<>>)
    /\ UNCHANGED <<document, loaded, nLoads, crashed>>

\* Storage::ClearListeners
ClearListeners(s) ==
    /\ ~crashed
    /\ Done(Op("ClearListeners", s, 0, 0, ""), [ThisConfig EXCEPT !.lst[s] = <<>>],
            FALSE, <<>>)
    /\ UNCHANGED <<document, loaded, nLoads, crashed>>

RECURSIVE TriggerFrom(_, _, _)
\* Storage::TriggerCallbacks: OnChanged for every stored pair, in map order
TriggerFrom(c, s, i) ==
    IF i > Len(c.val[s]) THEN c
    ELSE TriggerFrom(StorageOnChanged(c, s, c.val[s][i].k, c.val[s][i].v), s, i + 1)

TriggerCallbacks(s) ==
    /\ ~crashed
    /\ Done(Op("TriggerCallbacks", s, 0, 0, ""), TriggerFrom(ThisConfig, s, 1), FALSE, <<>>)
    /\ UNCHANGED <<document, loaded, nLoads, crashed>>

\* Storage::operator[], called where the key is stored
Index(s, aKey) ==
    /\ ~crashed
    /\ MapFind(m_mapValues[s], aKey) # 0
    /\ Done(Op("operator[]", s, aKey, 0, ""), ThisConfig,
            m_mapValues[s][MapFind(m_mapValues[s], aKey)].v, <<>>)
    /\ UNCHANGED <<document, loaded, nLoads, crashed>>

\* Config::GetAddress(sName), GetKey(sName) or GetOffset(sName) called by the
\* host on the store s; ret is what the host reads through the reference
ConfigGetCall(s, sName) ==
    /\ ~crashed
    /\ \E ub \in UBOutcomes :
          Done(Op("Config::Get", s, sName, 0, ""), ThisConfig,
               ConfigGet(m_mapValues, s, sName, ub), <<>>)
    /\ UNCHANGED <<document, loaded, nLoads, crashed>>

(***************************************************************************)
(* The listener collectors, called directly.  A callback is modelled by    *)
(* its name; invoking it is an event of the trace.                         *)
(***************************************************************************)

\* CUtlMap::InsertOrReplace
MapInsertOrReplace(map, aKey, aValue) ==
    IF MapFind(map, aKey) # 0
    THEN [map EXCEPT ![MapFind(map, aKey)] = Mem(aKey, aValue)]
    ELSE MapInsert(map, aKey, aValue)

\* ListenerCallbacksCollector::Insert
SingleInsert(map, aKey, funcCallback) == MapInsertOrReplace(map, aKey, funcCallback)

\* ListenerMultipleCallbacksCollector::Insert(aKey, funcCallback).  For a new
\* key the code calls map.Insert(vecNewOne) without naming the key; iNode is
\* the key under which the node ends up
MultiInsert(map, aKey, funcCallback, iNode) ==
    IF MapFind(map, aKey) # 0
    THEN [map EXCEPT ![MapFind(map, aKey)] = Mem(aKey, Append(@.v, funcCallback))]
    ELSE MapInsert(map, iNode, <<funcCallback>>)

\* Remove(aKey) of both collectors: the map after it and the result
CollectorRemove(map, aKey) ==
    IF MapFind(map, aKey) # 0
    THEN [map |-> RemoveAt(map, MapFind(map, aKey)), ok |-> TRUE]
    ELSE [map |-> map, ok |-> FALSE]

\* the callbacks OnChanged invokes, in order
InvokeAll(kind, vec, aKey, aValue) ==
    [i \in 1..Len(vec) |-> Ev("Callback", kind, aKey, aValue, vec[i], 0)]

\* ListenerCallbacksCollector::OnChanged
SingleOnChanged(map, aKey, aValue) ==
    IF MapFind(map, aKey) # 0
    THEN [crash |-> FALSE,
          trace |-> InvokeAll("single", <<map[MapFind(map, aKey)].v>>, aKey, aValue)]
    ELSE [crash |-> FALSE, trace |-> <<>>]

\* ListenerMultipleCallbacksCollector::OnChanged.  For a key without a node the
\* Assert fails in a build that keeps assertions; a build that drops them
\* reads map.Element(invalid index), an undefined read
MultiOnChanged(map, aKey, aValue, ub) ==
    IF MapFind(map, aKey) # 0
    THEN [crash |-> FALSE,
          trace |-> InvokeAll("multi", map[MapFind(map, aKey)].v, aKey, aValue)]
    ELSE IF ub.crash
    THEN [crash |-> TRUE, trace |-> <<>>]
    ELSE IF ub.val = 0
    THEN [crash |-> FALSE, trace |-> <<>>]
    ELSE [crash |-> FALSE, trace |-> InvokeAll("multi", <<"<garbage>">>, aKey, aValue)]

\* the collector call left the maps as maps, returned r and invoked tr
DoneCollector(o, maps, r, tr, crash) ==
    /\ m_mapCallbacks' = maps
    /\ op' = o
    /\ ret' = r
    /\ trace' = tr
    /\ crashed' = crash
    /\ vecMessages' = <<>>
    /\ UNCHANGED <<document, loaded, nLoads, lastSet, m_aSymbolTable, m_mapValues,
                   m_vecListeners, pc>>

CollectorInsert(kind, aKey, funcCallback) ==
    /\ ~crashed
    /\ IF MapFind(m_mapCallbacks[kind], aKey) = 0
       THEN Len(m_mapCallbacks[kind]) < MaxCallbacks
       ELSE kind = "multi" =>
              Len(m_mapCallbacks[kind][MapFind(m_mapCallbacks[kind], aKey)].v) < MaxCallbacks
    /\ \E iNode \in 0..Len(m_aSymbolTable) :
          /\ kind = "single" => iNode = aKey
          /\ DoneCollector(Op("Collector::Insert", kind, aKey, 0, funcCallback),
                [m_mapCallbacks EXCEPT ![kind] =
                    IF kind = "single" THEN SingleInsert(@, aKey, funcCallback)
                    ELSE MultiInsert(@, aKey, funcCallback, iNode)],
                FALSE, <<>>, FALSE)

CollectorRemoveCall(kind, aKey) ==
    /\ ~crashed
    /\ DoneCollector(Op("Collector::Remove", kind, aKey, 0, ""),
          [m_mapCallbacks EXCEPT ![kind] = CollectorRemove(@, aKey).map],
          CollectorRemove(m_mapCallbacks[kind], aKey).ok, <<>>, FALSE)

\* BaseListenerCollector::RemoveAll
CollectorRemoveAll(kind) ==
    /\ ~crashed
    /\ DoneCollector(Op("Collector::RemoveAll", kind, 0, 0, ""),
          [m_mapCallbacks EXCEPT ![kind] = <<>>], FALSE, <<>>, FALSE)

CollectorOnChanged(kind, aKey, aValue) ==
    /\ ~crashed
    /\ \E ub \in UBOutcomes :
         LET r == IF kind = "single"
                  THEN SingleOnChanged(m_mapCallbacks[kind], aKey, aValue)
                  ELSE MultiOnChanged(m_mapCallbacks[kind], aKey, aValue, ub)
         IN DoneCollector(Op("Collector::OnChanged", kind, aKey, aValue, ""),
                          m_mapCallbacks, FALSE, r.trace, r.crash)

(***************************************************************************)
(* The configuration documents the host parses.                            *)
(***************************************************************************)
Entry(name, members) == Mem(name, KVTab(members))

Section(name, entries) == Mem(name, KVTab(entries))

EngineDoc(engine, sections) == KVTab(<<Mem(engine, KVTab(sections))>>)

\* Signatures entries: two that resolve, and one for each way of failing
sigFoo == Entry("Foo", <<Mem("library", KVStr("server")), Mem("win64", KVStr("AA BB ? DD"))>>)

sigBar == Entry("Bar", <<Mem("library", KVStr("server")), Mem("win64", KVStr("CC ? EE")),
                         Mem("linuxsteamrt64", KVStr("AA BB ? DD"))>>)

SignaturesBodies ==
    { <<>>, <<sigBar, sigFoo>>,
      \* no library member; a library the host does not know
      <<Entry("Bar", <<Mem("win64", KVStr("CC ? EE"))>>),
        Entry("Baz", <<Mem("library", KVStr("ghost")), Mem("win64", KVStr("CC ? EE"))>>),
        sigFoo>>,
      \* no pattern for the platform; a pattern that matches nowhere
      <<Entry("Bar", <<Mem("library", KVStr("server")),
                       Mem("linuxsteamrt64", KVStr("CC ? EE"))>>),
        Entry("Baz", <<Mem("library", KVStr("server")), Mem("win64", KVStr("FF FF"))>>),
        sigFoo>> }

vtQux == Entry("Qux", <<Mem("library", KVStr("server")), Mem("name", KVStr("CFoo"))>>)

VTablesBodies ==
    { <<>>,
      \* no library member; an unknown library; a class the module lacks; a
      \* resolvable entry; an entry whose name member is missing
      <<Entry("Bar", <<Mem("name", KVStr("CFoo"))>>),
        Entry("Foo", <<Mem("library", KVStr("ghost"))>>),
        Entry("Quux", <<Mem("library", KVStr("server")), Mem("name", KVStr("CNope"))>>),
        vtQux,
        Entry("Baz", <<Mem("library", KVStr("server"))>>)>> }

KeysBodies ==
    { <<>>,
      << Entry("Bar", <<Mem("linuxsteamrt64", KVStr("x"))>>),
         Entry("Foo", <<Mem("win64", KVStr("value")), Mem("linuxsteamrt64", KVStr("x"))>>) >> }

OffsetsBodies ==
    { <<>>,
      << Entry("Bar", <<Mem("linux", KVNum(5))>>),
         Entry("Foo", <<Mem("win64", KVStr("0x10"))>>),
         Entry("Baz", <<Mem("win64", KVNum(16))>>) >> }

addrBar == Entry("Bar", <<Mem("signature", KVStr("Foo")), Mem("offset", KVNum(4))>>)

addrUnresolved == Entry("Qux", <<Mem("signature", KVStr("Nope")), Mem("offset", KVNum(4))>>)

AddressesBodies ==
    { <<>>, <<addrUnresolved, addrBar>>,
      \* no signature member and actions for another platform only
      <<Entry("Baz", <<Mem("linuxsteamrt64", KVTab(<<Mem("offset", KVNum(8))>>))>>)>> }

SectionPool ==
    {Section("Signatures", b) : b \in SignaturesBodies}
    \cup {Section("VTables", b) : b \in VTablesBodies}
    \cup {Section("Keys", b) : b \in KeysBodies}
    \cup {Section("Offsets", b) : b \in OffsetsBodies}
    \cup {Section("Addresses", b) : b \in AddressesBodies}

\* position of a section name in the order LoadEngine declares
SectionRank(name) ==
    CHOOSE n \in 1..5 :
        <<"Signatures", "VTables", "Keys", "Offsets", "Addresses">>[n] = name

\* documents of one section, of two sections in the declared order, two with
\* Addresses written before the section it refers to, and documents without
\* the engine subsection
PipelineDocuments ==
    {EngineDoc("csgo", <<a>>) : a \in SectionPool}
    \cup {EngineDoc("csgo", <<p[1], p[2]>>) :
             p \in {q \in SectionPool \X SectionPool :
                        SectionRank(q[1].k) < SectionRank(q[2].k)}}
    \cup {EngineDoc("csgo", <<Section("Addresses", <<addrUnresolved, addrBar>>),
                              Section("Signatures", b)>>) :
             b \in {<<sigBar, sigFoo>>, <<>>}}
    \cup {KVTab(<<>>), EngineDoc("dota", <<Section("Signatures", <<sigFoo>>)>>)}

(***************************************************************************)
(* Documents that exercise the address-action resolver: Signatures gives   *)
(* Foo = 16, and Addresses has one or two of these entries.                *)
(***************************************************************************)
\* the entries of the Addresses section the resolver is run on
ActionEntries ==
    { Entry("Bar", <<Mem("signature", KVStr("Foo")), Mem("offset", KVNum(4))>>),
      Entry("Bar", <<Mem("offset", KVNum(-20)), Mem("signature", KVStr("FOO"))>>),
      Entry("Baz", <<Mem("signature", KVStr("Bar")), Mem("offset", KVNum(2))>>),
      Entry("Bar", <<Mem("signature", KVStr("Foo")),
                     Mem("linuxsteamrt64", KVTab(<<Mem("offset", KVNum(8))>>)),
                     Mem("win64", KVTab(<<Mem("offset", KVNum(1))>>)),
                     Mem("osx64", KVTab(<<Mem("read", KVNum(4))>>))>>),
      Entry("Baz", <<Mem("signature", KVStr("Foo")),
                     Mem("offset", KVNum(2)),
                     Mem("win64",
                         KVTab(<<Mem("linuxsteamrt64", KVTab(<<Mem("offset", KVNum(8))>>)),
                                 Mem("offset", KVNum(1)),
                                 Mem("win64",
                                     KVTab(<<Mem("osx64", KVTab(<<Mem("offset", KVNum(8))>>)),
                                             Mem("offset", KVNum(3))>>))>>)),
                     Mem("read", KVNum(0))>>),
      Entry("Bar", <<Mem("signature", KVStr("Foo")), Mem("read", KVNum(4))>>),
      Entry("Baz", <<Mem("signature", KVStr("Foo")), Mem("read_offs32", KVNum(2))>>),
      Entry("Bar", <<Mem("signature", KVStr("Foo")), Mem("readx", KVNum(1)),
                     Mem("jump", KVNum(3)), Mem("offset", KVNum(4))>>),
      Entry("Baz", <<Mem("signature", KVStr("Qux")), Mem("offset", KVNum(4))>>),
      Entry("Baz", <<Mem("linuxsteamrt64", KVTab(<<Mem("offset", KVNum(8))>>))>>),
      Entry("Bar", <<>>),
      Entry("Bar", <<Mem("signature", KVStr("Foo")),
                     Mem("offset", KVNum(3)),
                     Mem("win64",
                         KVTab(<<Mem("offset", KVNum(1)),
                                 Mem("win64", KVTab(<<Mem("offset", KVNum(2))>>))>>))>>),
      Entry("Bar", <<Mem("signature", KVStr("Foo")), Mem("offset", KVNum(4)),
                     Mem("read_offs32", KVNum(4))>>),
      Entry("Bar", <<Mem("signature", KVStr("Foo")), Mem("offset", KVNum(4)),
                     Mem("win64", KVTab(<<>>)), Mem("offset", KVNum(1))>>) }

ActionBodies ==
    {<<e>> : e \in ActionEntries}
    \cup {<<p[1], p[2]>> : p \in {q \in ActionEntries \X ActionEntries : q[1].k # q[2].k}}

ActionDocuments ==
    {EngineDoc("csgo", <<Section("Signatures", <<sigFoo>>), Section("Addresses", b)>>) :
        b \in ActionBodies}

(***************************************************************************)
(* Specification of the loading pipeline.                                  *)
(***************************************************************************)
Next ==
    \/ \E d \in PipelineDocuments : Parse(d)
    \/ Load
    \/ ClearValues

Spec == Init /\ [][Next]_vars

(***************************************************************************)
(* Specification of the host working on a store directly.                  *)
(***************************************************************************)
StoresUnderTest == {"Addresses"}

Listeners == {"L1", "L2"}

Names == {"Foo", "FOO", "Bar"}

\* the symbols the host can hold: those interned so far
Symbols == 1 .. Len(m_aSymbolTable)

StorageValues == {16, 24}

StorageDefaults == {0, 8}

NextStorage ==
    \/ \E text \in Names : GetSymbolCall(text)
    \/ \E text \in Names : FindSymbolCall(text)
    \/ \E s \in StoresUnderTest, k \in Symbols, v \in StorageValues : Set(s, k, v)
    \/ \E s \in StoresUnderTest, k \in Symbols, d \in StorageDefaults : Get(s, k, d)
    \/ \E s \in StoresUnderTest, k \in Symbols : Index(s, k)
    \/ \E s \in StoresUnderTest : ClearStorage(s)
    \/ \E s \in StoresUnderTest, l \in Listeners : AddListener(s, l)
    \/ \E s \in StoresUnderTest, l \in Listeners : RemoveListener(s, l)
    \/ \E s \in StoresUnderTest : ClearListeners(s)
    \/ \E s \in StoresUnderTest : TriggerCallbacks(s)
    \/ ClearValues

SpecStorage == Init /\ [][NextStorage]_vars

(***************************************************************************)
(* Specification of the address-action resolver.                           *)
(***************************************************************************)
NextActions ==
    \/ \E d \in ActionDocuments : Parse(d)
    \/ Load
    \/ ClearValues

SpecActions == Init /\ [][NextActions]_vars

(***************************************************************************)
(* Specification of repeated loading: documents with one Addresses entry,  *)
(* next to a Signatures section that gives Foo = 16 or fails for Foo,      *)
(* loaded again or replaced by another before the next Load, with a        *)
(* listener on store Addresses.                                            *)
(***************************************************************************)
ReloadDocuments ==
    {EngineDoc("csgo", <<Section("Signatures", <<f>>), Section("Addresses", <<e>>)>>) :
        f \in {sigFoo, Entry("Foo", <<Mem("library", KVStr("ghost")),
                                       Mem("win64", KVStr("AA BB ? DD"))>>)},
        e \in {addrBar,
                Entry("Bar", <<>>),
                Entry("Bar", <<Mem("signature", KVStr("Foo")), Mem("offset", KVNum(4)),
                               Mem("win64", KVTab(<<>>))>>),
                Entry("Bar", <<Mem("signature", KVStr("Foo"))>>),
                Entry("Bar", <<Mem("signature", KVStr("Foo")),
                               Mem("linux", KVTab(<<Mem("offset", KVNum(8))>>))>>),
                Entry("Baz", <<Mem("offset", KVNum(2)),
                               Mem("win64", KVTab(<<Mem("offset", KVNum(1))>>)),
                               Mem("read", KVNum(0))>>)}}

NextReload ==
    \/ \E d \in ReloadDocuments : Parse(d)
    \/ Load
    \/ ClearValues
    \/ AddListener("Addresses", "L1")

SpecReload == Init /\ [][NextReload]_vars

(***************************************************************************)
(* Load followed statement by statement.  Only what decides the control    *)
(* flow is kept: the members of the tables, the loop indices and the       *)
(* calls.  Whether a `signature` member resolves is left open.             *)
(***************************************************************************)

\* a frame: the function, the table it works on, the member its loop is at
\* (1-based, 0 before the function's first statement) and, for the address
\* resolver, the number of resolver calls it is nested in
Frame(fn, kv, i, d) == [fn |-> fn, kv |-> kv, i |-> i, d |-> d]

Top == pc[Len(pc)]

Returning == SubSeq(pc, 1, Len(pc) - 1)

NextIndexStuck(i) == i

\* i++
NextIndex(i) == i + 1

\* pc becomes stack and the events are appended; nothing else changes
Step(stack, events) ==
    /\ pc' = stack
    /\ trace' = trace \o events
    /\ UNCHANGED <<document, m_aSymbolTable, m_mapValues, m_vecListeners, op, ret,
                   vecMessages, nLoads, crashed, lastSet, loaded, m_mapCallbacks>>

\* the host calls Config::Load on its document
BeginLoad ==
    /\ pc = <<>>
    /\ ~crashed
    /\ document # KVNull
    /\ nLoads < MaxLoads
    /\ pc' = <<Frame("Load", document, 0, 0)>>
    /\ nLoads' = nLoads + 1
    /\ loaded' = document
    /\ trace' = <<>>
    /\ op' = Op("Load", "", 0, 0, "")
    /\ UNCHANGED <<document, m_aSymbolTable, m_mapValues, m_vecListeners, ret,
                   vecMessages, crashed, lastSet, m_mapCallbacks>>

\* Config::Load: return false without the engine member, else return LoadEngine(...)
StepLoad ==
    /\ pc # <<>>
    /\ Top.fn = "Load"
    /\ IF HasMember(Top.kv, GetSourceEngineMemberName)
       THEN Step(Append(Returning,
                        Frame("LoadEngine", FindMember(Top.kv, GetSourceEngineMemberName),
                              1, 0)),
                 <<>>)
       ELSE Step(Returning, <<>>)

\* one turn of LoadEngine's for loop: the loader of section n is called when
\* the section is present
StepLoadEngine ==
    /\ pc # <<>>
    /\ Top.fn = "LoadEngine"
    /\ Top.i <= Len(aSections)
    /\ IF HasMember(Top.kv, aSections[Top.i])
       THEN Step(Append(Append(Returning, [Top EXCEPT !.i = NextIndex(@)]),
                        Frame(aSections[Top.i], FindMember(Top.kv, aSections[Top.i]), 1, 0)),
                 <<Ev("call", aSections[Top.i], 0, 0, <<>>, 0)>>)
       ELSE Step(Append(Returning, [Top EXCEPT !.i = NextIndex(@)]), <<>>)

\* one turn of a loader's do-while: the body for member i, which ends with
\* i++ on every path; the Addresses loader calls the resolver in it
StepLoader ==
    /\ pc # <<>>
    /\ Top.fn \in {"Signatures", "VTables", "Keys", "Offsets", "Addresses"}
    /\ Top.i <= GetMemberCount(Top.kv)
    /\ Step(IF Top.fn = "Addresses"
            THEN Append(Append(Returning, [Top EXCEPT !.i = NextIndex(@)]),
                        Frame("LoadEngineAddressActions", Top.kv.m[Top.i].v, 0, 0))
            ELSE Append(Returning, [Top EXCEPT !.i = NextIndex(@)]),
            <<Ev("visit", Top.fn, Top.i, 0, <<>>, 0)>>)

\* LoadEngineAddressActions up to its do-while: return false for an empty
\* table or a signature that is not found, remove the signature and the
\* other platforms' members, return true when nothing is left
StepActionsEnter ==
    /\ pc # <<>>
    /\ Top.fn = "LoadEngineAddressActions"
    /\ Top.i = 0
    /\ \E found \in BOOLEAN :
          /\ found \/ HasMember(Top.kv, s_aSignatureMemberName)
          /\ Step(IF \/ GetMemberCount(Top.kv) = 0
                     \/ HasMember(Top.kv, s_aSignatureMemberName) /\ ~found
                     \/ GetMemberCount(RemoveExtraKeys(
                            RemoveMember(Top.kv, s_aSignatureMemberName), PLAT_FIRST)) < 1
                  THEN Returning
                  ELSE Append(Returning,
                              [Top EXCEPT !.kv = RemoveExtraKeys(
                                              RemoveMember(@, s_aSignatureMemberName),
                                              PLAT_FIRST),
                                          !.i = 1]),
                  <<Ev("enter", "Addresses", 0, 0, <<>>, Top.d)>>)

\* one turn of the resolver's do-while: the member named by the platform key
\* ends the loop with `return LoadEngineAddressActions(...)`, any other
\* member ends with i++
StepAction ==
    /\ pc # <<>>
    /\ Top.fn = "LoadEngineAddressActions"
    /\ Top.i >= 1
    /\ Top.i <= GetMemberCount(Top.kv)
    /\ IF IsPlatformKey(Top.kv.m[Top.i].k)
       THEN Step(Append(Append(Returning, [Top EXCEPT !.i = GetMemberCount(Top.kv) + 1]),
                        Frame("LoadEngineAddressActions", Top.kv.m[Top.i].v, 0, Top.d + 1)),
                 <<>>)
       ELSE Step(Append(Returning, [Top EXCEPT !.i = NextIndex(@)]), <<>>)

\* the loop condition fails (or the section is empty): the function returns
Return ==
    /\ pc # <<>>
    /\ \/ Top.fn = "LoadEngine" /\ Top.i > Len(aSections)
       \/ /\ Top.fn \in {"Signatures", "VTables", "Keys", "Offsets", "Addresses",
                          "LoadEngineAddressActions"}
          /\ Top.i > GetMemberCount(Top.kv)
    /\ Step(Returning, <<>>)

Running == StepLoad \/ StepLoadEngine \/ StepLoader \/ StepActionsEnter \/ StepAction \/ Return

\* every document of the pipeline, and documents with one entry of each kind
\* in Addresses
WalkDocuments ==
    PipelineDocuments
    \cup {EngineDoc("csgo", <<Section("Addresses", <<e>>)>>) : e \in ActionEntries}

NextWalk ==
    \/ \E d \in WalkDocuments : pc = <<>> /\ Parse(d)
    \/ BeginLoad
    \/ StepLoad
    \/ StepLoadEngine
    \/ StepLoader
    \/ StepActionsEnter
    \/ StepAction
    \/ Return

\* a call that has begun keeps running
SpecWalk == Init /\ [][NextWalk]_vars /\ WF_vars(Running)

(***************************************************************************)
(* Specification of the Config getters: documents that fill all three      *)
(* stores, and the host reading them by symbol (0 is the invalid symbol).  *)
(***************************************************************************)
GetterDocuments ==
    { EngineDoc("csgo", <<Section("Signatures", <<sigBar, sigFoo>>),
                          Section("Keys", b), Section("Offsets", o)>>) :
         b \in KeysBodies \ {<<>>}, o \in OffsetsBodies \ {<<>>} }
    \cup { EngineDoc("csgo", <<Section("Keys", b)>>) : b \in KeysBodies \ {<<>>} }
    \cup { EngineDoc("csgo", <<Section("VTables", <<vtQux>>)>>) }
    \cup { EngineDoc("csgo", <<Section("Offsets",
                                       <<Entry("Foo", <<Mem("win64", KVStr(t))>>),
                                         Entry("Baz", <<Mem("win64", KVNum(n))>>)>>)>>) :
            t \in DOMAIN Chars, n \in {16, -4} }

NextGetters ==
    \/ \E d \in GetterDocuments : Parse(d)
    \/ Load
    \/ ClearValues
    \/ \E s \in Stores, k \in 0..Len(m_aSymbolTable) : ConfigGetCall(s, k)

SpecGetters == Init /\ [][NextGetters]_vars

(***************************************************************************)
(* Specification of the collectors: the host interns names and calls the   *)
(* public operations of one collector of each kind.                        *)
(***************************************************************************)
Callbacks == {"f", "g"}

NextCollector ==
    \/ \E text \in Names : GetSymbolCall(text)
    \/ \E kind \in Collectors, k \in Symbols, f \in Callbacks : CollectorInsert(kind, k, f)
    \/ \E kind \in Collectors, k \in Symbols : CollectorRemoveCall(kind, k)
    \/ \E kind \in Collectors : CollectorRemoveAll(kind)
    \/ \E kind \in Collectors, k \in Symbols, v \in StorageValues :
          CollectorOnChanged(kind, k, v)

SpecCollector == Init /\ [][NextCollector]_vars

(***************************************************************************)
(* Vocabulary of the properties.                                           *)
(***************************************************************************)
\* Config::GetAddress(FindSymbol(name)) in a Config with that table and store
AddressIn(table, values, name) ==
    StorageGet(values["Addresses"], FindSymbol(table, name), DefaultValue("Addresses"))

AddressOf(name) == AddressIn(m_aSymbolTable, m_mapValues, name)

HasEngine(doc) == HasMember(doc, "csgo")

HasSection(doc, section) ==
    HasEngine(doc) /\ HasMember(FindMember(doc, "csgo"), section)

\* the entries of a section of the engine subsection, <<>> when it is absent
SectionEntries(doc, section) ==
    IF HasSection(doc, section) THEN FindMember(FindMember(doc, "csgo"), section).m ELSE <<>>

\* the address a Signatures entry describes on Windows x64, 0 when its library
\* member is missing or unknown, its win64 pattern is missing, or the scan fails
SignatureAddress(entry) ==
    IF /\ HasMember(entry.v, "library")
       /\ GetString(FindMember(entry.v, "library"), "") \in Libraries
       /\ HasMember(entry.v, "win64")
    THEN FindPattern(GetString(FindMember(entry.v, "library"), ""),
                     GetString(FindMember(entry.v, "win64"), ""))
    ELSE 0

\* entry is exactly {signature: a spelling of name, offset: N}
IsSignatureOffset(entry, name) ==
    /\ Len(entry.v.m) = 2
    /\ HasMember(entry.v, "signature")
    /\ HasMember(entry.v, "offset")
    /\ SymbolEqual(GetString(FindMember(entry.v, "signature"), ""), name)

\* number of entries of Signatures, VTables and Addresses that are called name
Writers(doc, name) ==
    Cardinality({<<sec, i>> \in {"Signatures", "VTables", "Addresses"} \X (1..5) :
                    /\ i <= Len(SectionEntries(doc, sec))
                    /\ SymbolEqual(SectionEntries(doc, sec)[i].k, name)})

\* the value store Addresses holds under key k when event i of tr happens,
\* values being the stores when the operation began
StoredBefore(tr, i, k, values) ==
    LET sets == {j \in 1..(i - 1) : tr[j].e = "Set" /\ tr[j].a = "Addresses" /\ tr[j].k = k}
    IN IF sets = {} THEN StorageGet(values["Addresses"], k, 0)
       ELSE tr[CHOOSE j \in sets : \A j2 \in sets : j2 <= j].v

(***************************************************************************)
(* C1.  After a Load in which Signatures entry S resolves to address A and *)
(* Addresses entry B is {signature: S, offset: N} (no other entry writing  *)
(* either name), GetAddress(S) = A and GetAddress(B) = A + N; and whenever *)
(* the resolver finds the `signature` name stored in Addresses with a      *)
(* valid address, the cursor starts at exactly the address stored then.    *)
(***************************************************************************)
C1_SignaturePlusOffset ==
    [][ (op'.name = "Load" /\ ~crashed') =>
          /\ \A i \in 1..Len(SectionEntries(document, "Signatures")),
                j \in 1..Len(SectionEntries(document, "Addresses")) :
                LET S == SectionEntries(document, "Signatures")[i]
                    B == SectionEntries(document, "Addresses")[j]
                IN (/\ SignatureAddress(S) # 0
                    /\ IsSignatureOffset(B, S.k)
                    /\ Writers(document, S.k) = 1
                    /\ Writers(document, B.k) = 1)
                   => /\ AddressIn(m_aSymbolTable', m_mapValues', S.k) = SignatureAddress(S)
                      /\ AddressIn(m_aSymbolTable', m_mapValues', B.k)
                            = Wrap(SignatureAddress(S)
                                   + GetUInt64(FindMember(B.v, "offset")))
          /\ \A i \in 1..Len(trace') :
                (/\ trace'[i].e = "GetAddress"
                 /\ StoredBefore(trace', i, trace'[i].k, m_mapValues) # 0)
                   => /\ trace'[i].x = trace'[i].v
                      /\ trace'[i].v = StoredBefore(trace', i, trace'[i].k, m_mapValues)
      ]_vars

\* a Load resolved Bar = Foo + 4 from the signature Foo = 16 and then Baz from
\* the address Bar stored by the same Load
C1_Witness ==
    /\ op.name = "Load"
    /\ AddressOf("Foo") = 16
    /\ AddressOf("Bar") = 20
    /\ AddressOf("Baz") = 22
    /\ \E i \in 1..Len(trace) :
          /\ trace[i].e = "GetAddress"
          /\ trace[i].k = FindSymbol(m_aSymbolTable, "Bar")
          /\ trace[i].v = 20

\* a loader was invoked for the section during the operation traced by tr
Called(tr, section) == \E i \in 1..Len(tr) : tr[i].e = "call" /\ tr[i].a = section

CallAt(tr, section) == CHOOSE i \in 1..Len(tr) : tr[i].e = "call" /\ tr[i].a = section

ReturnAt(tr, section) == CHOOSE i \in 1..Len(tr) : tr[i].e = "return" /\ tr[i].a = section

Returned(tr, section) == \E i \in 1..Len(tr) : tr[i].e = "return" /\ tr[i].a = section

\* event j of tr happened while the loader of the section ran
InSegment(tr, j, section) ==
    /\ Called(tr, section)
    /\ Returned(tr, section)
    /\ CallAt(tr, section) <= j
    /\ j <= ReturnAt(tr, section)

\* the Set events of the section's loader, in order
SetsIn(tr, section) ==
    IF Called(tr, section) /\ Returned(tr, section)
    THEN SelectSeq(SubSeq(tr, CallAt(tr, section), ReturnAt(tr, section)),
                   LAMBDA ev : ev.e = "Set")
    ELSE <<>>

\* some message of msgs carries the name
Named(msgs, name) ==
    \E i \in 1..Len(msgs) : \E t \in 1..Len(msgs[i]) : msgs[i][t] = name

(***************************************************************************)
(* C2.  No loader stores an invalid (null) address: every value a Load     *)
(* writes into the Addresses store is non-zero.  The code does not keep    *)
(* this: the Addresses loader stores whatever cursor the resolver ends at. *)
(***************************************************************************)
C2_NoInvalidAddressStored ==
    op.name = "Load" =>
        \A i \in 1..Len(trace) :
            (trace[i].e = "Set" /\ trace[i].a = "Addresses") => trace[i].v # 0

\* the Addresses loader stored the null address for an entry and Load succeeded
C2_Witness ==
    /\ op.name = "Load"
    /\ ret = TRUE
    /\ \E i \in 1..Len(trace) :
          /\ InSegment(trace, i, "Addresses")
          /\ trace[i].e = "Set"
          /\ trace[i].v = 0
          /\ StorageGet(m_mapValues["Addresses"], trace[i].k, 8) = 0

(***************************************************************************)
(* C3.  In a non-empty Signatures section a failing entry is skipped and   *)
(* the entries after it are still processed: the loader stores exactly the *)
(* resolving entries, in document order, each with its scanned address,    *)
(* reports success, and Load adds no failure header for the section.       *)
(***************************************************************************)
C3_SignatureFailureNonFatal ==
    (op.name = "Load" /\ ~crashed /\ SectionEntries(loaded, "Signatures") # <<>>) =>
      LET resolving == SelectSeq(SectionEntries(loaded, "Signatures"),
                                 LAMBDA e : SignatureAddress(e) # 0)
          sets == SetsIn(trace, "Signatures")
      IN /\ Returned(trace, "Signatures")
         /\ trace[ReturnAt(trace, "Signatures")].v = 1
         /\ Len(sets) = Len(resolving)
         /\ \A i \in 1..Len(sets) :
               /\ sets[i].a = "Addresses"
               /\ sets[i].k = FindSymbol(m_aSymbolTable, resolving[i].k)
               /\ sets[i].v = SignatureAddress(resolving[i])
         /\ ~Named(vecMessages, "Signatures")

\* two entries of the section failed and the one after them was stored
C3_Witness ==
    /\ op.name = "Load"
    /\ Len(SectionEntries(loaded, "Signatures")) = 3
    /\ SignatureAddress(SectionEntries(loaded, "Signatures")[1]) = 0
    /\ SignatureAddress(SectionEntries(loaded, "Signatures")[2]) = 0
    /\ SignatureAddress(SectionEntries(loaded, "Signatures")[3]) = 16
    /\ Len(SetsIn(trace, "Signatures")) = 1
    /\ AddressOf(SectionEntries(loaded, "Signatures")[3].k) = 16

(***************************************************************************)
(* C4.  Every entry that fails to load (its loader stores nothing for it)  *)
(* has a message naming it in the diagnostics Load returns, whether or not *)
(* a section as a whole fails.  The code does not keep this: LoadEngine    *)
(* copies the loaders' messages only when a loader reports failure.        *)
(***************************************************************************)
C4_EveryFailureReported ==
    (op.name = "Load" /\ ~crashed) =>
        \A n \in 1..Len(aSections) :
            \A i \in 1..Len(SectionEntries(document, aSections[n])) :
                LET name == SectionEntries(document, aSections[n])[i].k
                IN (\A j \in 1..Len(SetsIn(trace, aSections[n])) :
                       SetsIn(trace, aSections[n])[j].k # FindSymbol(m_aSymbolTable, name))
                   => Named(vecMessages, name)

\* Load succeeded with empty diagnostics although a Signatures entry failed
C4_Witness ==
    /\ op.name = "Load"
    /\ ret = TRUE
    /\ vecMessages = <<>>
    /\ \E i \in 1..Len(SectionEntries(loaded, "Signatures")) :
          /\ SignatureAddress(SectionEntries(loaded, "Signatures")[i]) = 0
          /\ AddressOf(SectionEntries(loaded, "Signatures")[i].k) = 0

(***************************************************************************)
(* C5.  When the engine subsection is present Load returns success, and    *)
(* the loader of every section present in it is run to its end, also after *)
(* an earlier section failed.                                              *)
(***************************************************************************)
C5_LoadSucceedsAndLoadsEverySection ==
    (op.name = "Load" /\ ~crashed /\ HasEngine(loaded)) =>
      /\ ret = TRUE
      /\ \A n \in 1..5 :
            LET section == <<"Signatures", "VTables", "Keys", "Offsets", "Addresses">>[n]
            IN HasSection(loaded, section) <=> (/\ Called(trace, section)
                                                /\ Returned(trace, section))

\* a section failed as a whole, a later section stored a value, Load succeeded
C5_Witness ==
    /\ op.name = "Load"
    /\ ret = TRUE
    /\ \E i, j \in 1..Len(trace) :
          /\ i < j
          /\ trace[i].e = "return"
          /\ trace[i].v = 0
          /\ trace[j].e = "Set"
          /\ Named(vecMessages, trace[i].a)

(***************************************************************************)
(* C6.  When the engine subsection is absent Load returns failure with     *)
(* exactly one diagnostic, invokes no loader, leaves every store as it was *)
(* and notifies no listener.                                               *)
(***************************************************************************)
C6_MissingEngine ==
    [][ (op'.name = "Load" /\ ~HasEngine(document)) =>
          /\ ret' = FALSE
          /\ Len(vecMessages') = 1
          /\ Named(vecMessages', "csgo")
          /\ trace' = <<>>
          /\ m_mapValues' = m_mapValues
          /\ m_vecListeners' = m_vecListeners
      ]_vars

\* Load failed on a document without the engine subsection while the stores
\* held values of an earlier Load and had listeners
C6_Witness ==
    /\ op.name = "Load"
    /\ ~HasEngine(loaded)
    /\ ret = FALSE
    /\ m_mapValues["Addresses"] # <<>>
    /\ m_vecListeners["Addresses"] # <<>>

(***************************************************************************)
(* C7.  Loaders run in the order Signatures, VTables, Keys, Offsets,       *)
(* Addresses whatever the order of the sections in the document, so every  *)
(* step of the Signatures and VTables loaders precedes every lookup of the *)
(* Addresses loader.                                                       *)
(***************************************************************************)
C7_FixedLoaderOrder ==
    op.name = "Load" =>
        /\ \A i, j \in 1..Len(trace) :
              (i < j /\ trace[i].e = "call" /\ trace[j].e = "call")
                 => SectionRank(trace[i].a) < SectionRank(trace[j].a)
        /\ \A i, j \in 1..Len(trace) :
              (/\ trace[i].e = "GetAddress"
               /\ InSegment(trace, j, "Signatures") \/ InSegment(trace, j, "VTables"))
                 => j < i /\ InSegment(trace, i, "Addresses")

\* the document has Addresses written before Signatures, and the Addresses
\* loader found the address the Signatures loader stored in this Load
C7_Witness ==
    /\ op.name = "Load"
    /\ HasEngine(loaded)
    /\ Len(FindMember(loaded, "csgo").m) = 2
    /\ FindMember(loaded, "csgo").m[1].k = "Addresses"
    /\ FindMember(loaded, "csgo").m[2].k = "Signatures"
    /\ \E i, j \in 1..Len(trace) :
          /\ trace[j].e = "Set"
          /\ InSegment(trace, j, "Signatures")
          /\ trace[i].e = "GetAddress"
          /\ trace[i].k = trace[j].k
          /\ trace[i].v = trace[j].v
          /\ trace[i].v # 0

RECURSIVE Descend(_, _)
\* the table n levels below kv along members called win64, null when the chain
\* of win64 members is shorter
Descend(kv, n) ==
    IF n = 0 THEN kv
    ELSE IF HasMember(kv, "win64") THEN Descend(FindMember(kv, "win64"), n - 1)
    ELSE KVNull

\* the Addresses entry kv has a member under a key of another platform
HasOtherPlatformSubtree(kv) ==
    \E i \in 1..Len(kv.m) :
        kv.m[i].k \in {"windows", "linux", "linuxsteamrt64", "mac", "osx64"}

(***************************************************************************)
(* C8.  On the Windows x64 build no action below a key of another platform *)
(* is ever applied: every action the resolver applies is a member of an    *)
(* Addresses entry itself or of a table reached from it through win64 keys *)
(* only.                                                                   *)
(***************************************************************************)
C8_OtherPlatformNeverApplied ==
    (op.name = "Load" /\ ~crashed) =>
      \A i \in 1..Len(trace) :
         trace[i].e = "apply" =>
            /\ \A t \in 1..Len(trace[i].p) : trace[i].p[t] = "win64"
            /\ \E j \in 1..Len(SectionEntries(loaded, "Addresses")) :
                  LET node == Descend(SectionEntries(loaded, "Addresses")[j].v,
                                      Len(trace[i].p))
                  IN \E m \in 1..Len(node.m) :
                        /\ node.m[m].k = trace[i].a
                        /\ GetUInt64(node.m[m].v) = trace[i].v

\* an entry with a linuxsteamrt64 subtree beside its win64 subtree was loaded:
\* only the actions of the win64 subtree were applied
C8_Witness ==
    /\ op.name = "Load"
    /\ ~crashed
    /\ \E j \in 1..Len(SectionEntries(loaded, "Addresses")) :
          LET e == SectionEntries(loaded, "Addresses")[j]
          IN /\ HasOtherPlatformSubtree(e.v)
             /\ HasMember(e.v, "win64")
             /\ AddressOf(e.k) # 0
             /\ \E i \in 1..Len(trace) :
                   trace[i].e = "apply" /\ trace[i].p = <<"win64">>
             /\ \A i \in 1..Len(SectionEntries(document, "Addresses")) :
                   ~HasOtherPlatformSubtree(SectionEntries(document, "Addresses")[i].v)

\* number of nodes store s holds for key k
NodesFor(s, k) == Cardinality({i \in 1..Len(m_mapValues[s]) : m_mapValues[s][i].k = k})

(***************************************************************************)
(* C9.  In every state, for every store, key and default d: when the key   *)
(* was Set since the store was last cleared, Get(k, d) is the value of the *)
(* most recent such Set and the store holds exactly one node for the key;  *)
(* otherwise Get(k, d) is d and the store holds no node for it.  A Get the *)
(* host just made returned accordingly.                                    *)
(***************************************************************************)
C9_GetReturnsLatestSet ==
    /\ \A s \in Stores, k \in 0..3, d \in StorageDefaults :
          IF k \in DOMAIN lastSet[s]
          THEN /\ StorageGet(m_mapValues[s], k, d) = lastSet[s][k]
               /\ NodesFor(s, k) = 1
          ELSE /\ StorageGet(m_mapValues[s], k, d) = d
               /\ NodesFor(s, k) = 0
    /\ op.name = "Get" =>
          ret = IF op.k \in DOMAIN lastSet[op.s] THEN lastSet[op.s][op.k] ELSE op.v

\* a Set overwrote the node of a key that was already stored, next to the node
\* of another key
C9_Witness ==
    /\ op.name = "Set"
    /\ trace[1].e = "Set"
    /\ trace[1].x = 1
    /\ Len(m_mapValues[op.s]) = 2
    /\ StorageGet(m_mapValues[op.s], op.k, 0) = op.v
    /\ \E k \in DOMAIN lastSet[op.s] : lastSet[op.s][k] # op.v

\* number of times listener l occurs in the list vec
Occurrences(vec, l) == Cardinality({i \in 1..Len(vec) : vec[i] = l})

\* number of OnChanged calls listener l received with (k, v) in the operation
\* traced by tr
Notified(tr, l, k, v) ==
    Cardinality({i \in 1..Len(tr) : /\ tr[i].e = "OnChanged"
                                    /\ tr[i].p = <<l>>
                                    /\ tr[i].k = k
                                    /\ tr[i].v = v})

\* number of OnChanged calls listener l received in the operation traced by tr
NotifiedAtAll(tr, l) ==
    Cardinality({i \in 1..Len(tr) : tr[i].e = "OnChanged" /\ tr[i].p = <<l>>})

(***************************************************************************)
(* C10 as stated.  The Set that follows AddListener(L) on a store invokes  *)
(* L.OnChanged exactly once, with (k, v); the Set that follows             *)
(* RemoveListener(L) invokes L zero times; RemoveListener of a listener    *)
(* that is not registered returns false and leaves the list unchanged.     *)
(* The code does not keep this when L is registered twice.                 *)
(***************************************************************************)
C10_ExactlyOncePerSet ==
    [][ /\ (op.name = "AddListener" /\ op'.name = "Set" /\ op'.s = op.s) =>
              /\ Notified(trace', op.l, op'.k, op'.v) = 1
              /\ NotifiedAtAll(trace', op.l) = 1
        /\ (op.name = "RemoveListener" /\ op'.name = "Set" /\ op'.s = op.s) =>
              NotifiedAtAll(trace', op.l) = 0
        /\ (op'.name = "RemoveListener" /\ Occurrences(m_vecListeners[op'.s], op'.l) = 0) =>
              /\ ret' = FALSE
              /\ m_vecListeners' = m_vecListeners
      ]_vars

(***************************************************************************)
(* C10 as amended.  A Set(k, v) invokes L.OnChanged with (k, v) once for   *)
(* every occurrence of L in the listener list and in no other way;         *)
(* AddListener(L) adds one occurrence of L, also when L is registered      *)
(* already; RemoveListener(L) of a registered L returns true and removes   *)
(* one occurrence; RemoveListener of a listener that is not registered     *)
(* returns false and leaves the list unchanged.                            *)
(***************************************************************************)
C10_OncePerRegistration ==
    [][ /\ op'.name = "Set" =>
              \A l \in Listeners :
                 /\ Notified(trace', l, op'.k, op'.v) = Occurrences(m_vecListeners[op'.s], l)
                 /\ NotifiedAtAll(trace', l) = Occurrences(m_vecListeners[op'.s], l)
        /\ op'.name = "AddListener" =>
              \A l \in Listeners :
                 Occurrences(m_vecListeners'[op'.s], l)
                    = Occurrences(m_vecListeners[op'.s], l) + (IF l = op'.l THEN 1 ELSE 0)
        /\ (op'.name = "RemoveListener" /\ Occurrences(m_vecListeners[op'.s], op'.l) > 0) =>
              /\ ret' = TRUE
              /\ \A l \in Listeners :
                    Occurrences(m_vecListeners'[op'.s], l)
                       = Occurrences(m_vecListeners[op'.s], l) - (IF l = op'.l THEN 1 ELSE 0)
        /\ (op'.name = "RemoveListener" /\ Occurrences(m_vecListeners[op'.s], op'.l) = 0) =>
              /\ ret' = FALSE
              /\ m_vecListeners' = m_vecListeners
      ]_vars

\* a Set notified a listener that is registered twice, twice
C10_Witness ==
    /\ op.name = "Set"
    /\ \E l \in Listeners :
          /\ Occurrences(m_vecListeners[op.s], l) = 2
          /\ Notified(trace, l, op.k, op.v) = 2

\* right after event i (a Set) of tr every listener of the list lst was sent one
\* OnChanged with the key and value of the Set, in list order, and nobody else
NotifiedInOrder(tr, i, lst) ==
    /\ i + Len(lst) <= Len(tr)
    /\ \A n \in 1..Len(lst) :
          /\ tr[i + n].e = "OnChanged"
          /\ tr[i + n].a = tr[i].a
          /\ tr[i + n].k = tr[i].k
          /\ tr[i + n].v = tr[i].v
          /\ tr[i + n].p = <<lst[n]>>
    /\ (i + Len(lst) < Len(tr)) => tr[i + Len(lst) + 1].e # "OnChanged"

C12_GettersReadOnly ==
    [][ op'.name = "Config::Get" =>
          /\ ret' = IF op'.k \in DOMAIN lastSet[op'.s]
                    THEN lastSet[op'.s][op'.k]
                    ELSE DefaultValue(op'.s)
          /\ m_mapValues' = m_mapValues
          /\ m_vecListeners' = m_vecListeners
          /\ m_aSymbolTable' = m_aSymbolTable
          /\ trace' = <<>>
      ]_vars

\* the host read something else than the default through the reference a
\* getter returned for a key that is not stored
C12_Witness ==
    /\ op.name = "Config::Get"
    /\ MapFind(m_mapValues[op.s], op.k) = 0
    /\ ret # DefaultValue(op.s)

(***************************************************************************)
(* C13.  For both collector kinds, OnChanged(k, v) for a key without a     *)
(* registered callback invokes no callback and completes normally, and for *)
(* a registered key it invokes the callbacks registered under k and no     *)
(* other.  The multi-callback collector does not keep the first part: its  *)
(* OnChanged asserts that the key is registered.                           *)
(***************************************************************************)
C13_OnChangedIgnoresUnregistered ==
    [][ op'.name = "Collector::OnChanged" =>
          LET map == m_mapCallbacks[op'.s]
              i == MapFind(map, op'.k)
          IN /\ ~crashed'
             /\ m_mapCallbacks' = m_mapCallbacks
             /\ IF i = 0
                THEN trace' = <<>>
                ELSE trace' = InvokeAll(op'.s, IF op'.s = "single" THEN <<map[i].v>> ELSE map[i].v,
                                        op'.k, op'.v)
      ]_vars

\* OnChanged of the multi-callback collector ran for a key without a node
\* while the collector held a registration for another key
C13_Witness ==
    /\ op.name = "Collector::OnChanged"
    /\ op.s = "multi"
    /\ MapFind(m_mapCallbacks["multi"], op.k) = 0
    /\ m_mapCallbacks["multi"] # <<>>
    /\ crashed

(***************************************************************************)
(* C14.  For an entry of Offsets whose current-platform value is a text,   *)
(* the loader stores the integer the text denotes: hexadecimal after a 0x  *)
(* prefix and decimal otherwise; for a number it stores the number.  As    *)
(* stated this fails for a text with a leading 0, which strtol with base 0 *)
(* reads as octal.                                                         *)
(***************************************************************************)
OffsetStored(name) ==
    StorageGet(m_mapValues["Offsets"], FindSymbol(m_aSymbolTable, name),
               DefaultValue("Offsets"))

\* after a Load, every Offsets entry with a win64 value holds what reading
\* gives, a function from the texts it speaks about to integers
OffsetsLoadedAs(reading) ==
    (op.name = "Load" /\ ~crashed) =>
        \A i \in 1..Len(SectionEntries(loaded, "Offsets")) :
            LET e == SectionEntries(loaded, "Offsets")[i]
            IN HasMember(e.v, "win64") =>
                 /\ (FindMember(e.v, "win64").t = "str"
                       /\ FindMember(e.v, "win64").s \in DOMAIN reading)
                      => OffsetStored(e.k) = reading[FindMember(e.v, "win64").s]
                 /\ FindMember(e.v, "win64").t = "num"
                      => OffsetStored(e.k) = FindMember(e.v, "win64").n

C14_HexElseDecimal ==
    OffsetsLoadedAs(("0x10" :> 16) @@ ("16" :> 16) @@ ("-4" :> -4)
                    @@ ("010" :> 10) @@ ("08" :> 8))

\* amended: base 16 after 0x or 0X, base 8 after another leading 0, base 10
\* otherwise; white space and a sign may precede, reading stops at the first
\* character that is no digit of the base, and no digit at all gives 0
C14_PrefixAwareParsing ==
    OffsetsLoadedAs(("0x10" :> 16) @@ ("16" :> 16) @@ ("-4" :> -4)
                    @@ ("010" :> 8) @@ ("08" :> 0) @@ ("-0X1f" :> -31)
                    @@ (" +12" :> 12) @@ ("12abc" :> 12) @@ ("0x" :> 0) @@ ("" :> 0))

\* a Load stored 8 for the text "010" and the number of a numeric entry
C14_Witness ==
    /\ op.name = "Load"
    /\ ~crashed
    /\ \E i \in 1..Len(SectionEntries(loaded, "Offsets")) :
          /\ SectionEntries(loaded, "Offsets")[i].k = "Foo"
          /\ FindMember(SectionEntries(loaded, "Offsets")[i].v, "win64") = KVStr("010")
    /\ OffsetStored("Foo") = 8
    /\ OffsetStored("Baz") = -4

(***************************************************************************)
(* C15.  An offset action with value V moves the cursor from C to C + V in *)
(* pointer-width arithmetic and does nothing else; a run of consecutive    *)
(* offset actions leaves the cursor at C plus the sum of their values,     *)
(* whatever their order; the cursor the last action leaves is the address  *)
(* stored for the entry.  In an event of an applied action, k is the       *)
(* cursor before, v the value and x the cursor after.                      *)
(***************************************************************************)
RECURSIVE SumOfValues(_, _)
SumOfValues(tr, S) ==
    IF S = {} THEN 0
    ELSE LET n == CHOOSE n \in S : TRUE
         IN tr[n].v + SumOfValues(tr, S \ {n})

IsOffsetRun(tr, i, j) ==
    \A n \in i..j : tr[n].e = "apply" /\ tr[n].a = "offset"

C15_OffsetAdds ==
    (op.name = "Load" /\ ~crashed) =>
        /\ \A i \in 1..Len(trace) :
              (trace[i].e = "apply" /\ trace[i].a = "offset")
                 => trace[i].x = (trace[i].k + trace[i].v) % (2 ^ PtrBits)
        /\ \A i \in 1..Len(trace), j \in 1..Len(trace) :
              (i <= j /\ IsOffsetRun(trace, i, j))
                 => trace[j].x = (trace[i].k + SumOfValues(trace, i..j)) % (2 ^ PtrBits)
        /\ \A i \in 2..Len(trace) :
              (trace[i].e = "Set" /\ trace[i - 1].e = "apply")
                 => /\ trace[i].v = trace[i - 1].x
                    /\ trace[i].a = "Addresses"

\* a Load applied a run of three offsets from the signature address 16 and a
\* negative offset that wrapped around
C15_Witness ==
    /\ op.name = "Load"
    /\ ~crashed
    /\ \E i \in 1..Len(trace) :
          /\ i + 3 <= Len(trace)
          /\ IsOffsetRun(trace, i, i + 2)
          /\ trace[i].k = 16
          /\ trace[i + 2].x = 22
          /\ trace[i + 3].e = "Set"
    /\ \E i \in 1..Len(trace) :
          /\ IsOffsetRun(trace, i, i)
          /\ trace[i].v < 0
          /\ trace[i].x > trace[i].k

(***************************************************************************)
(* C16.  A read_offs32 action with value V at cursor C, where the memory   *)
(* holds the signed 32-bit integer D at C + V, sets the cursor to          *)
(* C + V + 4 + D in pointer-width arithmetic; a read action with value V   *)
(* sets the cursor to the pointer-width value stored at C + V.             *)
(***************************************************************************)
C16_ReadActions ==
    (op.name = "Load" /\ ~crashed) =>
        \A i \in 1..Len(trace) :
            LET at == (trace[i].k + trace[i].v) % (2 ^ PtrBits)
            IN (trace[i].e = "apply" /\ at \in Mapped) =>
                 /\ trace[i].a = "read_offs32" =>
                      trace[i].x = (trace[i].k + trace[i].v + 4 + ReadInt32At(at))
                                      % (2 ^ PtrBits)
                 /\ trace[i].a = "read" => trace[i].x = ReadPtrAt(at)

\* a Load applied read_offs32 over a negative displacement and read over a
\* stored pointer
C16_Witness ==
    /\ op.name = "Load"
    /\ ~crashed
    /\ \E i \in 1..Len(trace) :
          /\ trace[i].e = "apply"
          /\ trace[i].a = "read_offs32"
          /\ trace[i].k + trace[i].v \in Mapped
          /\ ReadInt32At(trace[i].k + trace[i].v) = -22
          /\ trace[i].x = 0
    /\ \E i \in 1..Len(trace) :
          /\ trace[i].e = "apply"
          /\ trace[i].a = "read"
          /\ trace[i].x = 44

(***************************************************************************)
(* C17.  A member of an address-action list whose name is not offset,      *)
(* read, read_offs32 or the current platform key leaves the cursor as it   *)
(* is, produces one diagnostic message and does not stop the walk: the     *)
(* later actions are applied and the entry is resolved and stored, as if   *)
(* the member were not there.  The message is composed but does not reach  *)
(* the diagnostics of Load (see C4).                                       *)
(***************************************************************************)
IsUnknownAction(name) ==
    /\ name \notin {"signature", "offset", "read", "read_offs32"}
    /\ \A n \in 1..Len(s_aPlatformMemberNames) : s_aPlatformMemberNames[n] # name

\* the action table without its members of unknown name, at every depth
RECURSIVE WithoutUnknown(_)
WithoutUnknown(kv) ==
    IF kv.t # "tab" THEN kv
    ELSE KVTab([i \in 1..Len(SelectSeq(kv.m, LAMBDA m : ~IsUnknownAction(m.k))) |->
                  Mem(SelectSeq(kv.m, LAMBDA m : ~IsUnknownAction(m.k))[i].k,
                      WithoutUnknown(SelectSeq(kv.m, LAMBDA m : ~IsUnknownAction(m.k))[i].v))])

\* the document with the unknown members of its Addresses entries removed
CleanAddresses(doc) ==
    LET e == FindMemberId(doc, "csgo")
        a == FindMemberId(doc.m[e].v, "Addresses")
    IN [doc EXCEPT !.m[e].v.m[a].v.m =
           [i \in 1..Len(@) |-> Mem(@[i].k, WithoutUnknown(@[i].v))]]

\* the unknown members the walk of an entry comes to: those at the top of an
\* entry that names a signature stored in values, before any current-platform
\* member
UnknownReached(entry, table, values) ==
    { p \in 1..Len(entry.v.m) :
        /\ IsUnknownAction(entry.v.m[p].k)
        /\ HasMember(entry.v, "signature")
        /\ AddressIn(table, values, GetString(FindMember(entry.v, "signature"), "")) # 0
        /\ \A q \in 1..(p - 1) : entry.v.m[q].k # GetCurrentPlatformMemberName }

C17_UnknownActionSkipped ==
    [][ (/\ op'.name = "Load"
         /\ HasSection(document, "Addresses")
         /\ ~ConfigLoad(ThisConfig, document, <<>>, UBProbe).fault)
        => /\ ~crashed'
           /\ ret' = ConfigLoad(ThisConfig, CleanAddresses(document), <<>>, UBProbe).ok
           /\ m_mapValues'
                = ConfigLoad(ThisConfig, CleanAddresses(document), <<>>, UBProbe).c.val
           /\ \A i \in 1..Len(SectionEntries(document, "Addresses")) :
                 \A p \in UnknownReached(SectionEntries(document, "Addresses")[i],
                                          m_aSymbolTable', m_mapValues') :
                    Cardinality({ n \in 1..Len(vecMessages') :
                                    Named(<<vecMessages'[n]>>,
                                          SectionEntries(document, "Addresses")[i].v.m[p].k) })
                       = 1
      ]_vars

\* a Load resolved and stored Bar = Foo + 4 across two unknown members and
\* returned no diagnostic at all
C17_Witness ==
    /\ op.name = "Load"
    /\ ~crashed
    /\ ret = TRUE
    /\ vecMessages = <<>>
    /\ \E i \in 1..Len(SectionEntries(loaded, "Addresses")) :
          /\ SectionEntries(loaded, "Addresses")[i].k = "Bar"
          /\ HasMember(SectionEntries(loaded, "Addresses")[i].v, "readx")
          /\ HasMember(SectionEntries(loaded, "Addresses")[i].v, "jump")
    /\ AddressOf("Bar") = 20

(***************************************************************************)
(* C18.  After any sequence of GetSymbol and FindSymbol calls, GetSymbol   *)
(* gives two texts the same symbol exactly when they are equal up to case, *)
(* so the value stored under one spelling of a name is the value read      *)
(* under every other spelling.                                             *)
(***************************************************************************)
SameName(a, b) ==
    \E spellings \in {{"Foo", "FOO"}, {"Bar"}} : a \in spellings /\ b \in spellings

C18_SymbolsIgnoreCase ==
    /\ \A a \in Names, b \in Names :
          /\ (GetSymbol(ThisConfig, a) = GetSymbol(GetSymbolTable(ThisConfig, a), b))
                <=> SameName(a, b)
          /\ GetSymbol(ThisConfig, a) # 0
          /\ GetSymbol(GetSymbolTable(GetSymbolTable(ThisConfig, a), b), a)
                = GetSymbol(ThisConfig, a)
          /\ SameName(a, b) =>
                /\ FindSymbol(m_aSymbolTable, a) = FindSymbol(m_aSymbolTable, b)
                /\ \A s \in StoresUnderTest :
                      FindSymbol(m_aSymbolTable, a) \in DOMAIN lastSet[s]
                         => StorageGet(m_mapValues[s], FindSymbol(m_aSymbolTable, b),
                                       DefaultValue(s))
                               = lastSet[s][FindSymbol(m_aSymbolTable, a)]
    /\ op.name \in {"GetSymbol", "FindSymbol"} =>
          /\ ret = FindSymbol(m_aSymbolTable, op.v)
          /\ \A i \in 1..Len(m_aSymbolTable) : (ret = i) <=> SameName(m_aSymbolTable[i], op.v)

\* GetSymbol("FOO") returned the symbol interned as "Foo", under which a value
\* is stored
C18_Witness ==
    /\ op.name = "GetSymbol"
    /\ op.v = "FOO"
    /\ ret # 0
    /\ m_aSymbolTable[ret] = "Foo"
    /\ MapFind(m_mapValues["Addresses"], ret) # 0
    /\ Len(m_aSymbolTable) = 2

(***************************************************************************)
(* C19.  For a section that is present with no entry, the diagnostics of   *)
(* Load hold one header naming the section, followed by the tab-prefixed   *)
(* messages of that section's own loader and by no message composed while  *)
(* another section was loaded, and the section writes nothing to a store.  *)
(* The code puts every message composed so far under each header.          *)
(***************************************************************************)
IsHeader(msg, section) == msg = <<"Failed to load \"", section, "\" section:">>

\* the sub-messages that follow the header at position h
RECURSIVE SubMessagesAfter(_, _)
SubMessagesAfter(msgs, h) ==
    IF h + 1 <= Len(msgs) /\ Len(msgs[h + 1]) > 0 /\ msgs[h + 1][1] = "\t"
    THEN <<msgs[h + 1]>> \o SubMessagesAfter(msgs, h + 1)
    ELSE <<>>

\* what the loader of an empty section says
EmptyMessage(section) ==
    IF section \in {"Signatures", "VTables"} THEN <<"Section is empty">>
    ELSE <<section \o " section is empty">>

C19_EmptySectionOwnMessages ==
    (op.name = "Load" /\ ~crashed) =>
        \A n \in 1..Len(aSections) :
            (HasSection(loaded, aSections[n]) /\ SectionEntries(loaded, aSections[n]) = <<>>)
              => /\ Cardinality({h \in 1..Len(vecMessages) :
                                    IsHeader(vecMessages[h], aSections[n])}) = 1
                 /\ \A h \in 1..Len(vecMessages) :
                       IsHeader(vecMessages[h], aSections[n])
                         => SubMessagesAfter(vecMessages, h)
                               = <<Tab(EmptyMessage(aSections[n]))>>
                 /\ SetsIn(trace, aSections[n]) = <<>>

\* under the header of the empty Keys section stands a message about an entry
\* of Signatures
C19_Witness ==
    /\ op.name = "Load"
    /\ ~crashed
    /\ HasSection(loaded, "Keys")
    /\ SectionEntries(loaded, "Keys") = <<>>
    /\ \E h \in 1..Len(vecMessages) :
          /\ IsHeader(vecMessages[h], "Keys")
          /\ Len(SubMessagesAfter(vecMessages, h)) > 1
          /\ \E i \in 1..Len(SectionEntries(loaded, "Signatures")) :
                Named(SubMessagesAfter(vecMessages, h),
                      SectionEntries(loaded, "Signatures")[i].k)

(***************************************************************************)
(* C20.  For a section that is absent from the engine subsection the       *)
(* loader is not invoked and nothing is appended to the diagnostics on its *)
(* account; whatever the Load writes is written by the loader of a section *)
(* that is present.                                                        *)
(***************************************************************************)
C20_AbsentSectionSkipped ==
    (op.name = "Load" /\ ~crashed /\ HasEngine(loaded)) =>
        /\ \A n \in 1..Len(aSections) :
              ~HasSection(loaded, aSections[n])
                 => /\ ~Called(trace, aSections[n])
                    /\ ~Named(vecMessages, aSections[n])
                    /\ \A h \in 1..Len(vecMessages) :
                          vecMessages[h] # Tab(<<aSections[n] \o " section is empty">>)
        /\ \A j \in 1..Len(trace) :
              trace[j].e \in {"Set", "OnChanged"}
                 => \E n \in 1..Len(aSections) :
                       /\ HasSection(loaded, aSections[n])
                       /\ InSegment(trace, j, aSections[n])
        /\ (\A n \in 1..Len(aSections) : ~HasSection(loaded, aSections[n]))
              => trace = <<>> /\ vecMessages = <<>> /\ ret = TRUE

\* a Load of a document without Signatures, VTables and Keys stored an offset
\* and ran the Addresses loader
C20_Witness ==
    /\ op.name = "Load"
    /\ ~crashed
    /\ HasEngine(loaded)
    /\ ~HasSection(loaded, "Signatures")
    /\ ~HasSection(loaded, "VTables")
    /\ ~HasSection(loaded, "Keys")
    /\ Called(trace, "Offsets")
    /\ Called(trace, "Addresses")
    /\ m_mapValues["Offsets"] # <<>>

(***************************************************************************)
(* C21.  When the walk of an action list comes to the member named by the  *)
(* current platform key, the actions before it have been applied, the      *)
(* nested table is resolved from the cursor they left, no member after the *)
(* platform member is applied, and the entry is stored exactly when the    *)
(* nested resolution succeeds.                                             *)
(***************************************************************************)

\* position in tr of the event that starts the n-th entry of Addresses
EntryAt(tr, n) ==
    CHOOSE i \in 1..Len(tr) :
        /\ tr[i].e = "entry"
        /\ Cardinality({j \in 1..i : tr[j].e = "entry"}) = n

\* the events of the n-th entry of Addresses, up to the next entry or the
\* return of the loader
EntrySegment(tr, n) ==
    LET s == EntryAt(tr, n)
        stops == {j \in (s + 1)..Len(tr) : tr[j].e \in {"entry", "return"}}
        last == IF stops = {} THEN Len(tr)
                ELSE (CHOOSE j \in stops : \A k \in stops : j <= k) - 1
    IN SubSeq(tr, s, last)

\* the actions applied during the events seg, as <<name, value>>
AppliedIn(seg) ==
    LET a == SelectSeq(seg, LAMBDA ev : ev.e = "apply")
    IN [i \in 1..Len(a) |-> <<a[i].a, a[i].v>>]

\* the members of an action table left for the walk on Windows x64
WalkedMembers(kv) ==
    SelectSeq(kv.m, LAMBDA m : m.k \notin {"signature", "windows", "linux",
                                            "linuxsteamrt64", "mac", "osx64"})

PlatformAt(ms) ==
    IF \E p \in 1..Len(ms) : ms[p].k = "win64"
    THEN CHOOSE p \in 1..Len(ms) : ms[p].k = "win64" /\ \A q \in 1..(p - 1) : ms[q].k # "win64"
    ELSE 0

KnownActions(ms) ==
    LET a == SelectSeq(ms, LAMBDA m : m.k \in {"offset", "read", "read_offs32"})
    IN [i \in 1..Len(a) |-> <<a[i].k, GetUInt64(a[i].v)>>]

\* the actions the claim expects: those before the platform member, then
\* those of the nested table, none of the members after it
RECURSIVE EffectiveActions(_)
EffectiveActions(kv) ==
    IF PlatformAt(WalkedMembers(kv)) = 0 THEN KnownActions(WalkedMembers(kv))
    ELSE KnownActions(SubSeq(WalkedMembers(kv), 1, PlatformAt(WalkedMembers(kv)) - 1))
            \o EffectiveActions(WalkedMembers(kv)[PlatformAt(WalkedMembers(kv))].v)

\* the verdict the claim expects of a table without signature members below
\* its top: that of the innermost platform table, which fails when empty
RECURSIVE EffectiveVerdict(_)
EffectiveVerdict(kv) ==
    IF Len(kv.m) = 0 THEN FALSE
    ELSE IF PlatformAt(WalkedMembers(kv)) = 0 THEN TRUE
    ELSE EffectiveVerdict(WalkedMembers(kv)[PlatformAt(WalkedMembers(kv))].v)

RECURSIVE HasNestedSignature(_)
HasNestedSignature(kv) ==
    \E i \in 1..Len(kv.m) :
        kv.m[i].v.t = "tab"
          /\ (HasMember(kv.m[i].v, "signature") \/ HasNestedSignature(kv.m[i].v))

\* the walk of the entry began: it has members, and its signature, if it
\* names one, gave a valid address
WalkBegan(entry, seg) ==
    /\ Len(entry.v.m) > 0
    /\ HasMember(entry.v, "signature") =>
          \E i \in 1..Len(seg) :
              seg[i].e = "GetAddress" /\ seg[i].p = <<>> /\ seg[i].v # 0

SignatureSymbol(table, entry) ==
    FindSymbol(table, GetString(FindMember(entry.v, "signature"), ""))

\* the n-th entry of Addresses in doc names, when its turn comes in tr, a key
\* that store Addresses does not hold with a valid address
SignatureUnresolved(doc, tr, table, values, n) ==
    /\ HasMember(SectionEntries(doc, "Addresses")[n].v, "signature")
    /\ StoredBefore(tr, EntryAt(tr, n),
                    SignatureSymbol(table, SectionEntries(doc, "Addresses")[n]),
                    values) = 0

StoredIn(seg) == \E i \in 1..Len(seg) : seg[i].e = "Set"

EntriesStarted(tr) == Cardinality({i \in 1..Len(tr) : tr[i].e = "entry"})

C22_UnresolvedSignatureFailsWhole ==
    [][ (op'.name = "Load" /\ ~crashed') =>
          \A n \in 1..Len(SectionEntries(document, "Addresses")) :
              SignatureUnresolved(document, trace', m_aSymbolTable', m_mapValues, n)
              => /\ AppliedIn(EntrySegment(trace', n)) = <<>>
                 /\ ~StoredIn(EntrySegment(trace', n))
                 /\ Named(vecMessages', SectionEntries(document, "Addresses")[n].k)
                 /\ EntriesStarted(trace') = Len(SectionEntries(document, "Addresses"))
      ]_vars

\* a Load found the signature of the first of two entries unresolved, went on
\* to the second entry and returned success with empty diagnostics
C22_Witness ==
    /\ op.name = "Load"
    /\ ~crashed
    /\ ret = TRUE
    /\ vecMessages = <<>>
    /\ Len(SectionEntries(loaded, "Addresses")) = 2
    /\ HasMember(SectionEntries(loaded, "Addresses")[1].v, "signature")
    /\ GetString(FindMember(SectionEntries(loaded, "Addresses")[1].v, "signature"), "") = "Qux"
    /\ \E i \in 1..Len(EntrySegment(trace, 1)) :
          EntrySegment(trace, 1)[i].e = "GetAddress" /\ EntrySegment(trace, 1)[i].v = 0
    /\ ~StoredIn(EntrySegment(trace, 1))
    /\ StoredIn(EntrySegment(trace, 2))

(***************************************************************************)
(* C23.  An Addresses entry may name another Addresses entry in its        *)
(* `signature` member (the name being written by that entry alone and not  *)
(* stored when Load begins): its cursor starts at that entry's address     *)
(* exactly when the named entry stands earlier in the section and was      *)
(* stored, and it is not stored when the named entry stands later.  The    *)
(* code does not keep this: for a name not stored yet the address is read  *)
(* through a reference to a destroyed temporary.                           *)
(***************************************************************************)

\* entry j of Addresses in doc names entry i in its `signature` member
RefersTo(doc, j, i) ==
    /\ i # j
    /\ HasMember(SectionEntries(doc, "Addresses")[j].v, "signature")
    /\ SymbolEqual(GetString(FindMember(SectionEntries(doc, "Addresses")[j].v, "signature"), ""),
                   SectionEntries(doc, "Addresses")[i].k)

\* the cursor of the events sj started at the address stored during si
ResolvesFrom(sj, si) ==
    \E a \in 1..Len(sj), b \in 1..Len(si) :
        /\ sj[a].e = "GetAddress" /\ sj[a].p = <<>>
        /\ si[b].e = "Set"
        /\ sj[a].v = si[b].v
        /\ sj[a].x = si[b].v
        /\ sj[a].v # 0

C23_AddressReferencesEarlierEntry ==
    [][ (op'.name = "Load" /\ ~crashed') =>
          \A i \in 1..Len(SectionEntries(document, "Addresses")),
             j \in 1..Len(SectionEntries(document, "Addresses")) :
              (/\ RefersTo(document, j, i)
               /\ Writers(document, SectionEntries(document, "Addresses")[i].k) = 1
               /\ AddressOf(SectionEntries(document, "Addresses")[i].k) = 0)
              => /\ ResolvesFrom(EntrySegment(trace', j), EntrySegment(trace', i))
                    <=> (i < j /\ StoredIn(EntrySegment(trace', i)))
                 /\ j < i => ~StoredIn(EntrySegment(trace', j))
      ]_vars

\* a Load stored the first entry although the entry its `signature` member
\* names stands after it
C23_Witness ==
    /\ op.name = "Load"
    /\ ~crashed
    /\ Len(SectionEntries(loaded, "Addresses")) = 2
    /\ RefersTo(loaded, 1, 2)
    /\ Writers(loaded, SectionEntries(loaded, "Addresses")[2].k) = 1
    /\ StoredIn(EntrySegment(trace, 1))
    /\ StoredIn(EntrySegment(trace, 2))
    /\ nLoads = 1

(***************************************************************************)
(* C24.  While the listeners are notified of Set(k, v) the store already   *)
(* holds v under k: a listener that calls Get(k) from OnChanged(k, v)      *)
(* obtains v.                                                              *)
(***************************************************************************)
C24_ValueCommittedBeforeNotification ==
    op.name = "Set" =>
        /\ trace[1].e = "Set"
        /\ \A i \in 2..Len(trace) :
              /\ trace[i].e = "OnChanged"
              /\ trace[i].k = op.k
              /\ trace[i].v = op.v
              /\ trace[i].x = op.v

\* a Set wrote 24 into the node a key already had, next to the node of another
\* key that holds 16, and two different listeners were notified
C24_Witness ==
    /\ op.name = "Set"
    /\ op.v = 24
    /\ trace[1].x = 1
    /\ Len(trace) = 3
    /\ trace[2].p # trace[3].p
    /\ trace[3].x = 24
    /\ \E i \in 1..Len(m_mapValues[op.s]) :
          m_mapValues[op.s][i].k # op.k /\ m_mapValues[op.s][i].v = 16

(***************************************************************************)
(* C25.  Among the operations of a Storage, Set is the only one that       *)
(* changes the stored values and the only one that has OnChanged invoked   *)
(* on a listener.  The code does not keep this as stated: ClearValues      *)
(* empties the store and TriggerCallbacks notifies.                        *)
(***************************************************************************)
HasOnChanged(tr) == \E i \in 1..Len(tr) : tr[i].e = "OnChanged"

C25_SetOnlyMutatorAndNotifier ==
    [][ /\ m_mapValues' # m_mapValues => op'.name = "Set"
        /\ HasOnChanged(trace') => op'.name = "Set"
      ]_vars

(***************************************************************************)
(* C25, amended.  Set is the only operation that writes a value into the   *)
(* store; ClearValues removes every stored value and notifies nobody;      *)
(* OnChanged is invoked by Set and by TriggerCallbacks only, and           *)
(* TriggerCallbacks, like Get, operator[], AddListener, RemoveListener and *)
(* ClearListeners, leaves the stored values as they are.                   *)
(***************************************************************************)
C25_SetWritesClearEmptiesTriggerNotifies ==
    [][ /\ m_mapValues' # m_mapValues
            => \/ op'.name = "Set"
               \/ /\ op'.name \in {"Storage::ClearValues", "ClearValues"}
                  /\ \A s \in Stores : m_mapValues'[s] \in {<<>>, m_mapValues[s]}
        /\ op'.name \in {"Storage::ClearValues", "ClearValues"}
            => /\ ~HasOnChanged(trace')
               /\ m_mapValues'[IF op'.name = "ClearValues" THEN "Addresses" ELSE op'.s] = <<>>
        /\ HasOnChanged(trace') => op'.name \in {"Set", "TriggerCallbacks"}
        /\ op'.name = "TriggerCallbacks"
            => Len(trace') = Len(m_mapValues[op'.s]) * Len(m_vecListeners[op'.s])
      ]_vars

\* TriggerCallbacks notified two listeners of the two pairs a store holds
C25_Witness ==
    /\ op.name = "TriggerCallbacks"
    /\ Len(m_mapValues[op.s]) = 2
    /\ Len(trace) = 4
    /\ \A i \in 1..4 : trace[i].e = "OnChanged"
    /\ trace[1].k # trace[3].k
    /\ trace[1].p # trace[2].p

(***************************************************************************)
(* C26.  Insert(k, cb) of the single-callback collector leaves exactly cb  *)
(* registered under k; Insert(k, cb) of the multi-callback collector       *)
(* appends cb to the callbacks OnChanged(k, v) invokes, in insertion       *)
(* order, also when cb is the first callback of k; Remove(k) of both       *)
(* deletes every callback of k and returns true exactly when k had one.    *)
(* The multi-callback collector does not keep the second part for a new    *)
(* key: it inserts the new vector without giving the map the key.          *)
(***************************************************************************)

\* the callbacks OnChanged of a collector of this kind invokes for aKey
CallbacksOf(map, kind, aKey) ==
    IF MapFind(map, aKey) = 0 THEN <<>>
    ELSE IF kind = "single" THEN <<map[MapFind(map, aKey)].v>>
    ELSE map[MapFind(map, aKey)].v

C26_InsertReplacesOrAppends ==
    [][ /\ op'.name = "Collector::Insert"
            => CallbacksOf(m_mapCallbacks'[op'.s], op'.s, op'.k)
                  = IF op'.s = "single" THEN <<op'.l>>
                    ELSE Append(CallbacksOf(m_mapCallbacks[op'.s], op'.s, op'.k), op'.l)
        /\ op'.name = "Collector::Remove"
            => /\ CallbacksOf(m_mapCallbacks'[op'.s], op'.s, op'.k) = <<>>
               /\ ret' = (CallbacksOf(m_mapCallbacks[op'.s], op'.s, op'.k) # <<>>)
      ]_vars

\* the multi-callback collector holds a callback just inserted for a new key,
\* and OnChanged finds no node for that key
C26_Witness ==
    /\ op.name = "Collector::Insert"
    /\ op.s = "multi"
    /\ CallbacksOf(m_mapCallbacks["multi"], "multi", op.k) = <<>>
    /\ \E i \in 1..Len(m_mapCallbacks["multi"]) : m_mapCallbacks["multi"][i].v = <<op.l>>

(***************************************************************************)
(* C27.  When a key holds a value from an earlier Load and the entry of    *)
(* that name (the only entry writing the key) fails to resolve in a later  *)
(* Load, the value stored under the key is unchanged and no listener is    *)
(* notified for the key.                                                   *)
(***************************************************************************)

\* store Addresses holds a value under the key of name
StoredUnder(table, values, name) ==
    /\ FindSymbol(table, name) # 0
    /\ MapFind(values["Addresses"], FindSymbol(table, name)) # 0

\* the resolver returned false for the entry whose events are seg: the entry
\* is empty, its signature gave no valid address, or its innermost platform
\* table is empty
FailsToResolve(entry, seg) ==
    \/ Len(entry.v.m) = 0
    \/ /\ HasMember(entry.v, "signature")
       /\ \E i \in 1..Len(seg) : seg[i].e = "GetAddress" /\ seg[i].p = <<>> /\ seg[i].v = 0
    \/ /\ WalkBegan(entry, seg)
       /\ ~HasNestedSignature(entry.v)
       /\ ~EffectiveVerdict(entry.v)

\* no Set of the key of name and no notification for it among the events tr
Untouched(tr, table, name) ==
    \A i \in 1..Len(tr) :
        (tr[i].e \in {"Set", "OnChanged"} /\ tr[i].a = "Addresses")
          => tr[i].k # FindSymbol(table, name)

C27_FailedEntryKeepsValue ==
    [][ (op'.name = "Load" /\ ~crashed') =>
          /\ \A n \in 1..Len(SectionEntries(document, "Addresses")) :
                (/\ StoredUnder(m_aSymbolTable, m_mapValues,
                                SectionEntries(document, "Addresses")[n].k)
                 /\ Writers(document, SectionEntries(document, "Addresses")[n].k) = 1
                 /\ FailsToResolve(SectionEntries(document, "Addresses")[n],
                                   EntrySegment(trace', n)))
                => /\ AddressIn(m_aSymbolTable', m_mapValues',
                                SectionEntries(document, "Addresses")[n].k)
                        = AddressOf(SectionEntries(document, "Addresses")[n].k)
                   /\ Untouched(trace', m_aSymbolTable',
                                SectionEntries(document, "Addresses")[n].k)
          /\ \A i \in 1..Len(SectionEntries(document, "Signatures")) :
                (/\ StoredUnder(m_aSymbolTable, m_mapValues,
                                SectionEntries(document, "Signatures")[i].k)
                 /\ Writers(document, SectionEntries(document, "Signatures")[i].k) = 1
                 /\ SignatureAddress(SectionEntries(document, "Signatures")[i]) = 0)
                => /\ AddressIn(m_aSymbolTable', m_mapValues',
                                SectionEntries(document, "Signatures")[i].k)
                        = AddressOf(SectionEntries(document, "Signatures")[i].k)
                   /\ Untouched(trace', m_aSymbolTable',
                                SectionEntries(document, "Signatures")[i].k)
      ]_vars

\* the second Load, of a document whose entry Bar is an empty table and whose
\* signature Foo names an unknown library, left Bar = 20 and Foo = 16 of the
\* first Load in the store and notified the listener of neither
C27_Witness ==
    /\ op.name = "Load"
    /\ ~crashed
    /\ nLoads = 2
    /\ m_vecListeners["Addresses"] # <<>>
    /\ SectionEntries(loaded, "Addresses")[1].k = "Bar"
    /\ Len(SectionEntries(loaded, "Addresses")[1].v.m) = 0
    /\ SignatureAddress(SectionEntries(loaded, "Signatures")[1]) = 0
    /\ AddressOf("Bar") = 20
    /\ AddressOf("Foo") = 16
    /\ trace # <<>>
    /\ \A i \in 1..Len(trace) : trace[i].e \notin {"Set", "OnChanged"}

(***************************************************************************)
(* C28.  In the Addresses loader the sub-messages listed under the header  *)
(* of a failed entry are exactly the messages composed while that entry    *)
(* was resolved; a message composed for an earlier entry is not among      *)
(* them.  The code does not keep this: the vector the resolver appends to  *)
(* is declared before the loop over the entries and never cleared.         *)
(***************************************************************************)

\* position of the event that started the entry which event i of tr belongs to
EntryBefore(tr, i) ==
    CHOOSE s \in 1..i : tr[s].e = "entry" /\ \A j \in (s + 1)..i : tr[j].e # "entry"

\* the messages composed since the entry of event i was handed to the resolver
ComposedFor(tr, i) ==
    SubSeq(tr[i].p, tr[EntryBefore(tr, i)].v + 1, Len(tr[i].p))

C28_SubMessagesOfOwnEntry ==
    (op.name = "Load" /\ ~crashed) =>
        \A i \in 1..Len(trace) :
            trace[i].e = "failed" => trace[i].p = ComposedFor(trace, i)

\* the second entry failed as an empty table, and under its header stands the
\* message composed for the first entry, whose signature was not found
C28_Witness ==
    /\ op.name = "Load"
    /\ ~crashed
    /\ Len(SectionEntries(loaded, "Addresses")) = 2
    /\ \E i \in 1..Len(trace) :
          /\ trace[i].e = "failed"
          /\ trace[i].a = SectionEntries(loaded, "Addresses")[2].k
          /\ Len(trace[i].p) = 2
          /\ Named(<<trace[i].p[1]>>, SectionEntries(loaded, "Addresses")[1].k)
          /\ trace[i].p[2] = <<"Section is empty">>

(***************************************************************************)
(* C29.  Load is repeatable on one document object: after ClearValues, a   *)
(* Load of the document that an earlier Load was given leaves the stores   *)
(* with the contents, and returns the verdict, which a Load of the         *)
(* document as the earlier Load received it gives on the cleared stores.   *)
(* The code does not keep this: the address resolver removes the           *)
(* `signature` member and the members of other platforms from the          *)
(* document it is given.                                                   *)
(***************************************************************************)

\* Load of the document as the last Load received it, on the Config as it is
FirstLoad == ConfigLoad(ThisConfig, loaded, <<>>, UBProbe)

C29_LoadRepeatable ==
    [][ (/\ op.name = "ClearValues"
         /\ loaded # KVNull
         /\ op'.name = "Load"
         /\ ~crashed'
         /\ ~FirstLoad.fault)
        => /\ m_mapValues' = FirstLoad.c.val
           /\ ret' = FirstLoad.ok
      ]_vars

\* the second Load of a document found its entry Bar without the `signature`
\* member the first Load removed, and stored 4 where the first stored 20
C29_Witness ==
    /\ op.name = "Load"
    /\ ~crashed
    /\ nLoads = 2
    /\ SectionEntries(loaded, "Addresses") = <<Entry("Bar", <<Mem("offset", KVNum(4))>>)>>
    /\ SectionEntries(document, "Addresses") = SectionEntries(loaded, "Addresses")
    /\ AddressOf("Foo") = 16
    /\ AddressOf("Bar") = 4

(***************************************************************************)
(* C30.  For every document Load terminates: the loader of each present    *)
(* section begins its loop body once for each entry, in document order,    *)
(* and the address resolver is never nested in more resolver calls than    *)
(* the entry has tables nested in it.                                      *)
(***************************************************************************)

\* the members for which the loader of the section began its loop body, in order
VisitsOf(tr, section) ==
    LET v == SelectSeq(tr, LAMBDA ev : ev.e = "visit" /\ ev.a = section)
    IN [i \in 1..Len(v) |-> v[i].k]

\* the greatest number of tables nested in one another inside kv
RECURSIVE TableDepth(_)
TableDepth(kv) ==
    LET inner == {1 + TableDepth(kv.m[i].v) : i \in {j \in 1..Len(kv.m) : kv.m[j].v.t = "tab"}}
    IN IF inner = {} THEN 0 ELSE CHOOSE d \in inner : \A e \in inner : e <= d

\* so far every entry of every section was visited at most once and in order,
\* and when Load has returned, exactly once
VisitedOnceInOrder ==
    \A n \in 1..Len(aSections) :
        /\ VisitsOf(trace, aSections[n]) = [i \in 1..Len(VisitsOf(trace, aSections[n])) |-> i]
        /\ Len(VisitsOf(trace, aSections[n])) <= Len(SectionEntries(loaded, aSections[n]))
        /\ (pc = <<>> /\ op.name = "Load")
             => Len(VisitsOf(trace, aSections[n])) = Len(SectionEntries(loaded, aSections[n]))

\* the frames above the Addresses loader are resolver calls for the entry it
\* is at, each nested in one more call than the one below, and no more deeply
\* than the entry has nested tables
RecursionBounded ==
    \A j \in 1..Len(pc) :
        pc[j].fn = "LoadEngineAddressActions"
          => /\ pc[2].fn = "Addresses"
             /\ pc[j].d = j - 3
             /\ pc[j].d <= TableDepth(SectionEntries(loaded, "Addresses")[pc[2].i - 1].v)

C30_LoadTerminates ==
    /\ [](VisitedOnceInOrder /\ RecursionBounded)
    /\ (pc # <<>>) ~> (pc = <<>>)

\* a Load returned after the resolver was called for an entry and for the
\* two platform tables nested in it
C30_Witness ==
    /\ pc = <<>>
    /\ op.name = "Load"
    /\ VisitsOf(trace, "Addresses") = <<1>>
    /\ TableDepth(SectionEntries(loaded, "Addresses")[1].v) = 2
    /\ \E i \in 1..Len(trace) : trace[i].e = "enter" /\ trace[i].x = 2

====
